---- MODULE Spec2Model ----
(***************************************************************************)
(* Replica engine of the ratatoist terminal client                         *)
(* (crates/ratatoist-tui/src/app.rs): the local replica, the delta merge,  *)
(* the optimistic command engine with its reversal records, the            *)
(* background-result channel and the derived task view.                    *)
(*                                                                         *)
(* Ids are strings; Option<String>::None is the string NONE.  Dates are    *)
(* day numbers (the code compares ISO date strings, which orders them as   *)
(* the day numbers are ordered).                                           *)
(***************************************************************************)
EXTENDS Integers, Sequences, FiniteSets, TLC

VARIABLES
    projects,           \* App.projects : Vec<Project>
    workspaces,         \* App.workspaces
    folders,            \* App.folders
    tasks,              \* App.tasks : Vec<Task>
    labels,             \* App.labels
    sections,           \* App.sections
    comments,           \* App.comments (the visible comment list)
    comments_by_task,   \* App.comments_by_task : task id -> Vec<Comment>
    completed_cache,    \* App.completed_cache : project id -> Vec<Task>
    selected_project,   \* App.selected_project (0-based index)
    selected_task,      \* App.selected_task (0-based index into visible_tasks)
    active_pane,        \* App.active_pane
    collapsed,          \* App.collapsed
    sort_mode,          \* App.sort_mode
    task_filter,        \* App.task_filter
    dock_filter,        \* App.dock_filter
    sync_token,         \* App.sync_token
    persisted,          \* token stored in sync_state.json
    ephemeral,          \* App.ephemeral
    pending_ws_sync,    \* App.pending_ws_sync
    idle_timeout_secs,  \* App.idle_timeout_secs
    theme_idx,          \* App.theme_idx
    websocket_url,      \* App.websocket_url
    ui_settings,        \* contents of ui_settings.json
    elapsed,            \* seconds since App.last_activity
    comments_fetch_seq, \* App.comments_fetch_seq
    temp_id_pending,    \* App.temp_id_pending : uuid -> OptimisticOp
    error,              \* App.error
    CMD_COUNTER,        \* static CMD_COUNTER
    pending_commands,   \* App.pending_commands
    nsync,              \* number of incremental syncs spawned so far
    pc,                 \* "load" before load_with_splash has run, then "run",
                        \* or "offline" when it failed (no push channel)
    net,                \* requests and replies in flight (background tasks)
    server,             \* the service's state
    wsock,                 \* the run_websocket task: its backoff, what it posted
    hist                \* observation record of the last step (not program state)

vars == <<projects, workspaces, folders, tasks, labels, sections, comments,
          comments_by_task, completed_cache, selected_project, selected_task,
          active_pane, collapsed, sort_mode, task_filter, dock_filter,
          sync_token, persisted, ephemeral, pending_ws_sync, idle_timeout_secs,
          theme_idx, websocket_url, ui_settings,
          elapsed, comments_fetch_seq, temp_id_pending, error, CMD_COUNTER,
          pending_commands, nsync, pc, net, server, wsock, hist>>

-----------------------------------------------------------------------------
(* Values *)

NONE == "none"
NoneI32 == -1
I32_MIN == -2147483647 - 1
TODAY == 10

NoDue == [has |-> FALSE, date |-> 0, is_recurring |-> FALSE]
Due(d, r) == [has |-> TRUE, date |-> d, is_recurring |-> r]

\* Task::default() with the given id, content, project and priority.
DefaultTask(id, content, project_id, priority) ==
    [id |-> id, content |-> content, description |-> "", checked |-> FALSE,
     child_order |-> 0, priority |-> priority, project_id |-> project_id,
     section_id |-> NONE, parent_id |-> NONE, due |-> NoDue, added_at |-> 0,
     note_count |-> NoneI32, is_deleted |-> FALSE]

MkTask(id, content, project_id, parent_id, child_order) ==
    [DefaultTask(id, content, project_id, 1) EXCEPT
        !.parent_id = parent_id, !.child_order = child_order]

MkProject(id, child_order, inbox, fav, ws, folder) ==
    [id |-> id, parent_id |-> NONE, child_order |-> child_order,
     is_favorite |-> fav, inbox_project |-> inbox, is_deleted |-> FALSE,
     workspace_id |-> ws, folder_id |-> folder]

MkComment(id, content, task_id) ==
    [id |-> id, content |-> content, task_id |-> task_id, item_id |-> task_id,
     is_deleted |-> FALSE]

-----------------------------------------------------------------------------
(* Sequence helpers *)

Range(s) == {s[i] : i \in 1..Len(s)}

\* The least index of a set of indices, 0 when the set is empty
\* (iter().position / iter().find over the matching positions).
First(I) == IF I = {} THEN 0 ELSE CHOOSE i \in I : \A j \in I : i <= j

\* Index of the first element with this id, 0 when there is none.
IdxOf(s, id) == First({i \in 1..Len(s) : s[i].id = id})

\* iter_mut().find(|e| e.id == id) followed by `*e = v`.
Replace(s, id, v) ==
    IF IdxOf(s, id) = 0 THEN s ELSE [s EXCEPT ![IdxOf(s, id)] = v]

\* iter_mut().find(|e| e.id == id) followed by `e.field = v`.
Patch(s, id, field, v) ==
    IF IdxOf(s, id) = 0 THEN s ELSE [s EXCEPT ![IdxOf(s, id)][field] = v]

\* Ordering::cmp on sort keys, which are tuples of integers compared
\* position by position (cmp(..).then(..)).
KeyLess(k, l) ==
    \E i \in 1..Len(k) : k[i] < l[i] /\ \A j \in 1..(i - 1) : k[j] = l[j]

\* Position of element i of a stable sort by the keys K.
Rank(K, i) ==
    Cardinality({j \in 1..Len(K) :
        KeyLess(K[j], K[i]) \/ (K[j] = K[i] /\ j < i)}) + 1

\* slice::sort_by / sort_by_key (stable): K[i] is the key of s[i].
SortByKey(s, K) ==
    [r \in 1..Len(s) |-> s[CHOOSE i \in 1..Len(s) : Rank(K, i) = r]]

\* sort_by_key(|t| t.child_order)
ByChildOrder(s) == SortByKey(s, [i \in 1..Len(s) |-> <<s[i].child_order>>])

NoDup(s) == \A i, j \in 1..Len(s) : s[i].id = s[j].id => i = j

RECURSIVE Concat(_)
Concat(ss) == IF ss = <<>> THEN <<>> ELSE Head(ss) \o Concat(Tail(ss))

-----------------------------------------------------------------------------
(* The App as one record, so that handlers compose as functions. *)

Self ==
    [projects |-> projects, workspaces |-> workspaces, folders |-> folders,
     tasks |-> tasks, labels |-> labels, sections |-> sections,
     comments |-> comments, comments_by_task |-> comments_by_task,
     completed_cache |-> completed_cache,
     selected_project |-> selected_project, selected_task |-> selected_task,
     active_pane |-> active_pane, collapsed |-> collapsed,
     sort_mode |-> sort_mode, task_filter |-> task_filter,
     dock_filter |-> dock_filter, sync_token |-> sync_token,
     persisted |-> persisted, ephemeral |-> ephemeral,
     pending_ws_sync |-> pending_ws_sync,
     idle_timeout_secs |-> idle_timeout_secs, elapsed |-> elapsed,
     theme_idx |-> theme_idx, websocket_url |-> websocket_url,
     ui_settings |-> ui_settings,
     comments_fetch_seq |-> comments_fetch_seq,
     temp_id_pending |-> temp_id_pending, error |-> error,
     CMD_COUNTER |-> CMD_COUNTER, pending_commands |-> pending_commands,
     nsync |-> nsync, net |-> net]

\* The same assignment for an initial state.
Becomes0(a) ==
    /\ projects = a.projects
    /\ workspaces = a.workspaces
    /\ folders = a.folders
    /\ tasks = a.tasks
    /\ labels = a.labels
    /\ sections = a.sections
    /\ comments = a.comments
    /\ comments_by_task = a.comments_by_task
    /\ completed_cache = a.completed_cache
    /\ selected_project = a.selected_project
    /\ selected_task = a.selected_task
    /\ active_pane = a.active_pane
    /\ collapsed = a.collapsed
    /\ sort_mode = a.sort_mode
    /\ task_filter = a.task_filter
    /\ dock_filter = a.dock_filter
    /\ sync_token = a.sync_token
    /\ persisted = a.persisted
    /\ ephemeral = a.ephemeral
    /\ pending_ws_sync = a.pending_ws_sync
    /\ idle_timeout_secs = a.idle_timeout_secs
    /\ theme_idx = a.theme_idx
    /\ websocket_url = a.websocket_url
    /\ ui_settings = a.ui_settings
    /\ elapsed = a.elapsed
    /\ comments_fetch_seq = a.comments_fetch_seq
    /\ temp_id_pending = a.temp_id_pending
    /\ error = a.error
    /\ CMD_COUNTER = a.CMD_COUNTER
    /\ pending_commands = a.pending_commands
    /\ nsync = a.nsync
    /\ net = a.net

Becomes(a) ==
    /\ projects' = a.projects
    /\ workspaces' = a.workspaces
    /\ folders' = a.folders
    /\ tasks' = a.tasks
    /\ labels' = a.labels
    /\ sections' = a.sections
    /\ comments' = a.comments
    /\ comments_by_task' = a.comments_by_task
    /\ completed_cache' = a.completed_cache
    /\ selected_project' = a.selected_project
    /\ selected_task' = a.selected_task
    /\ active_pane' = a.active_pane
    /\ collapsed' = a.collapsed
    /\ sort_mode' = a.sort_mode
    /\ task_filter' = a.task_filter
    /\ dock_filter' = a.dock_filter
    /\ sync_token' = a.sync_token
    /\ persisted' = a.persisted
    /\ ephemeral' = a.ephemeral
    /\ pending_ws_sync' = a.pending_ws_sync
    /\ idle_timeout_secs' = a.idle_timeout_secs
    /\ theme_idx' = a.theme_idx
    /\ websocket_url' = a.websocket_url
    /\ ui_settings' = a.ui_settings
    /\ elapsed' = a.elapsed
    /\ comments_fetch_seq' = a.comments_fetch_seq
    /\ temp_id_pending' = a.temp_id_pending
    /\ error' = a.error
    /\ CMD_COUNTER' = a.CMD_COUNTER
    /\ pending_commands' = a.pending_commands
    /\ nsync' = a.nsync
    /\ net' = a.net

-----------------------------------------------------------------------------
(* Project ordering *)

IsPinned(p) == p.inbox_project \/ p.is_favorite

\* The order of collect_project_subtree: pinned first, then child_order.
ByPinThenOrder(s) ==
    SortByKey(s, [i \in 1..Len(s) |->
        <<IF IsPinned(s[i]) THEN 0 ELSE 1, s[i].child_order>>])

RECURSIVE collect_project_subtree(_, _, _)
collect_project_subtree(parent_id, all, fuel) ==
    IF fuel = 0 THEN <<>>
    ELSE LET children == ByPinThenOrder(
                 SelectSeq(all, LAMBDA p : p.parent_id = parent_id))
         IN  Concat([i \in 1..Len(children) |->
                 <<children[i]>> \o
                 collect_project_subtree(children[i].id, all, fuel - 1)])

\* sort_projects without the final pass over the projects not reached.
sort_projects_ReachedOnly(a) ==
    LET source == a.projects
        fuel == Len(source) + 1
        selected_id == IF a.selected_project < Len(source)
                       THEN source[a.selected_project + 1].id ELSE NONE
        personal == SelectSeq(source, LAMBDA p : p.workspace_id = NONE)
        WsPart(ws) ==
            LET ws_projects == SelectSeq(source, LAMBDA p : p.workspace_id = ws.id)
                no_folder == SelectSeq(ws_projects, LAMBDA p : p.folder_id = NONE)
                ws_folders == ByChildOrder(
                    SelectSeq(a.folders, LAMBDA f : f.workspace_id = ws.id))
                InFolder(f) == SelectSeq(ws_projects, LAMBDA p : p.folder_id = f.id)
            IN  IF ws_projects = <<>> THEN <<>>
                ELSE collect_project_subtree(NONE, no_folder, fuel) \o
                     Concat([k \in 1..Len(ws_folders) |->
                         collect_project_subtree(NONE, InFolder(ws_folders[k]), fuel)])
        reached == collect_project_subtree(NONE, personal, fuel) \o
                   Concat([w \in 1..Len(a.workspaces) |-> WsPart(a.workspaces[w])])
        ordered == reached
        pos == IdxOf(ordered, selected_id)
    IN  [a EXCEPT !.projects = ordered,
                  !.selected_project =
                      IF selected_id # NONE /\ pos # 0 THEN pos - 1 ELSE @]

sort_projects(a) ==
    LET source == a.projects
        fuel == Len(source) + 1
        selected_id == IF a.selected_project < Len(source)
                       THEN source[a.selected_project + 1].id ELSE NONE
        personal == SelectSeq(source, LAMBDA p : p.workspace_id = NONE)
        WsPart(ws) ==
            LET ws_projects == SelectSeq(source, LAMBDA p : p.workspace_id = ws.id)
                no_folder == SelectSeq(ws_projects, LAMBDA p : p.folder_id = NONE)
                ws_folders == ByChildOrder(
                    SelectSeq(a.folders, LAMBDA f : f.workspace_id = ws.id))
                InFolder(f) == SelectSeq(ws_projects, LAMBDA p : p.folder_id = f.id)
            IN  IF ws_projects = <<>> THEN <<>>
                ELSE collect_project_subtree(NONE, no_folder, fuel) \o
                     Concat([k \in 1..Len(ws_folders) |->
                         collect_project_subtree(NONE, InFolder(ws_folders[k]), fuel)])
        reached == collect_project_subtree(NONE, personal, fuel) \o
                   Concat([w \in 1..Len(a.workspaces) |-> WsPart(a.workspaces[w])])
        ordered_ids == {p.id : p \in Range(reached)}
        ordered == reached \o SelectSeq(source, LAMBDA p : p.id \notin ordered_ids)
        pos == IdxOf(ordered, selected_id)
    IN  [a EXCEPT !.projects = ordered,
                  !.selected_project =
                      IF selected_id # NONE /\ pos # 0 THEN pos - 1 ELSE @]

-----------------------------------------------------------------------------
(* Derived task view *)

today_str == TODAY
offset_days_str(days) == TODAY + days

DockPriority(d) ==
    CASE d = "p1" -> 1 [] d = "p2" -> 2 [] d = "p3" -> 3 [] d = "p4" -> 4
      [] OTHER -> 0

\* overview_stats: one pass over the tasks of the replica.
overview_stats(a) ==
    LET Count(Keep(_)) ==
            Cardinality({i \in 1..Len(a.tasks) :
                            ~a.tasks[i].is_deleted /\ Keep(a.tasks[i])})
        today == today_str
        week_end == offset_days_str(7)
        DueToday(t) == t.due.has /\ t.due.date = today /\ ~t.checked
        DueWeek(t) == t.due.has /\ t.due.date >= today /\ t.due.date <= week_end
        Overdue(t) == t.due.has /\ t.due.date < today /\ ~t.checked
    IN  [due_today |-> Count(DueToday),
         due_week |-> Count(DueWeek),
         overdue |-> Count(Overdue),
         by_priority |-> [p \in 0..4 |->
             Cardinality({i \in 1..Len(a.tasks) :
                 /\ ~a.tasks[i].is_deleted /\ ~a.tasks[i].checked
                 /\ a.tasks[i].priority = p})]]

\* projects.get(selected_project).map(|p| p.id)
current_project_id(a) ==
    IF a.selected_project < Len(a.projects)
    THEN a.projects[a.selected_project + 1].id ELSE NONE

\* The ancestor walk of is_descendant_of; fuel bounds the walk (the code
\* loops for ever on a cyclic parent chain).
RECURSIVE is_descendant_of(_, _, _, _)
is_descendant_of(a, task_id, ancestor_id, fuel) ==
    LET i == IdxOf(a.tasks, task_id)
        parent == IF i = 0 THEN NONE ELSE a.tasks[i].parent_id
    IN  IF parent = NONE \/ fuel = 0 THEN FALSE
        ELSE IF parent = ancestor_id THEN TRUE
        ELSE is_descendant_of(a, parent, ancestor_id, fuel - 1)

has_completed_descendant_Any(a, task_id) == TRUE

has_completed_descendant(a, task_id) ==
    \E i \in 1..Len(a.tasks) :
        /\ ~a.tasks[i].is_deleted
        /\ a.tasks[i].checked
        /\ is_descendant_of(a, a.tasks[i].id, task_id, Len(a.tasks) + 1)

RECURSIVE collect_visible_children(_, _, _)
collect_visible_children(a, parent_id, fuel) ==
    IF fuel = 0 THEN <<>>
    ELSE LET children == ByChildOrder(
                 SelectSeq(a.tasks, LAMBDA t :
                     ~t.is_deleted /\ t.parent_id = parent_id))
         IN  Concat([i \in 1..Len(children) |->
                 <<children[i]>> \o
                 (IF children[i].id \notin a.collapsed
                  THEN collect_visible_children(a, children[i].id, fuel - 1)
                  ELSE <<>>)])

RECURSIVE collect_done_children(_, _, _)
collect_done_children(a, parent_id, fuel) ==
    IF fuel = 0 THEN <<>>
    ELSE LET children == ByChildOrder(
                 SelectSeq(a.tasks, LAMBDA t :
                     /\ ~t.is_deleted
                     /\ t.parent_id = parent_id
                     /\ (t.checked \/ has_completed_descendant(a, t.id))))
         IN  Concat([i \in 1..Len(children) |->
                 <<children[i]>> \o
                 (IF children[i].id \notin a.collapsed
                  THEN collect_done_children(a, children[i].id, fuel - 1)
                  ELSE <<>>)])

RECURSIVE collect_cached_children(_, _, _)
collect_cached_children(parent_id, cached, fuel) ==
    IF fuel = 0 THEN <<>>
    ELSE LET children == ByChildOrder(
                 SelectSeq(cached, LAMBDA t : t.parent_id = parent_id))
         IN  Concat([i \in 1..Len(children) |->
                 <<children[i]>> \o
                 collect_cached_children(children[i].id, cached, fuel - 1)])

CachedOf(a, project_id) ==
    IF project_id \in DOMAIN a.completed_cache
    THEN a.completed_cache[project_id] ELSE <<>>

\* The rows append_cached_completed pushes after `result`.
append_cached_completed(a, project_id, result) ==
    LET cached == CachedOf(a, project_id)
        already_shown == {t.id : t \in Range(result)}
        cached_ids == {t.id : t \in Range(cached)}
        roots == ByChildOrder(
            SelectSeq(cached, LAMBDA t :
                t.parent_id = NONE \/ t.parent_id \notin cached_ids))
        Context(root) ==
            LET i == First({j \in 1..Len(a.tasks) :
                         a.tasks[j].id = root.parent_id /\ ~a.tasks[j].is_deleted})
            IN  IF root.parent_id # NONE /\ root.parent_id \notin already_shown
                   /\ i # 0
                THEN <<a.tasks[i]>> ELSE <<>>
    IN  result \o
        Concat([k \in 1..Len(roots) |->
            Context(roots[k]) \o <<roots[k]>> \o
            collect_cached_children(roots[k].id, cached, Len(cached) + 1)])

\* The filter closure of visible_tasks.
TopLevelKeep(a, t) ==
    IF t.is_deleted \/ t.parent_id # NONE THEN FALSE
    ELSE IF a.dock_filter # "none" THEN
        CASE a.dock_filter = "overdue" ->
                 t.due.has /\ t.due.date < today_str /\ ~t.checked
          [] a.dock_filter = "today" -> t.due.has /\ t.due.date = today_str
          [] a.dock_filter = "week" ->
                 t.due.has /\ t.due.date >= today_str
                           /\ t.due.date <= offset_days_str(7)
          [] OTHER -> t.priority = DockPriority(a.dock_filter) /\ ~t.checked
    ELSE /\ t.project_id = current_project_id(a)
         /\ CASE a.task_filter = "Active" -> ~t.checked
              [] a.task_filter = "Done" ->
                     t.checked \/ has_completed_descendant(a, t.id)
              [] OTHER -> TRUE

\* so(): section_order of the task's section, i32::MIN when unknown.
SectionOrderOf(a, sid) ==
    LET i == IdxOf(a.sections, sid)
    IN  IF sid = NONE \/ i = 0 \/ a.sections[i].section_order = NoneI32
        THEN I32_MIN ELSE a.sections[i].section_order

DueKey_NoDueFirst(t) == IF t.due.has THEN t.due.date ELSE 0
DueKey(t) == IF t.due.has THEN t.due.date ELSE 99990000

SortTopLevel(a, top) ==
    CASE a.sort_mode = "Default" ->
             IF a.dock_filter = "none"
             THEN SortByKey(top, [i \in 1..Len(top) |->
                      <<SectionOrderOf(a, top[i].section_id), top[i].child_order>>])
             ELSE ByChildOrder(top)
      [] a.sort_mode = "Priority" ->
             SortByKey(top, [i \in 1..Len(top) |-> <<0 - top[i].priority>>])
      [] a.sort_mode = "DueDate" ->
             SortByKey(top, [i \in 1..Len(top) |-> <<DueKey(top[i])>>])
      [] OTHER ->
             SortByKey(top, [i \in 1..Len(top) |-> <<0 - top[i].added_at>>])

visible_tasks(a) ==
    LET top_level == SortTopLevel(a, SelectSeq(a.tasks, LAMBDA t : TopLevelKeep(a, t)))
        fuel == Len(a.tasks) + 1
        walked == Concat([i \in 1..Len(top_level) |->
            <<top_level[i]>> \o
            (IF top_level[i].id \notin a.collapsed
             THEN IF a.task_filter = "Done"
                  THEN collect_done_children(a, top_level[i].id, fuel)
                  ELSE collect_visible_children(a, top_level[i].id, fuel)
             ELSE <<>>)])
    IN  IF a.dock_filter # "none" THEN top_level
        ELSE IF a.task_filter \in {"Done", "Both"}
                /\ a.selected_project < Len(a.projects)
        THEN append_cached_completed(a, current_project_id(a), walked)
        ELSE walked

\* selected_task(): visible.get(self.selected_task); 0 when there is none.
SelIdx(a) ==
    IF a.selected_task < Len(visible_tasks(a)) THEN a.selected_task + 1 ELSE 0

selected_task_id(a) ==
    LET At(visible) == IF a.selected_task < Len(visible)
                       THEN visible[a.selected_task + 1].id ELSE NONE
    IN  At(visible_tasks(a))

ClampCursor_Keep(a) == a

\* "Keep selection in bounds": the clamp after a sync or a filter change.
ClampCursor(a) ==
    LET Clamp(visible_len) ==
            [a EXCEPT !.selected_task =
                IF visible_len = 0 THEN 0
                ELSE IF @ >= visible_len THEN visible_len - 1 ELSE @]
    IN  Clamp(Len(visible_tasks(a)))

-----------------------------------------------------------------------------
(* Sync replies and the merge *)

\* A SyncResponse.  `has` names the entity lists that are present (Some);
\* an absent list is carried as <<>>.  sync_status is the outcome map in
\* iteration order, temp_id_mapping the mapping in iteration order.
NoUser == [has |-> FALSE, websocket_url |-> NONE]

Reply(full, token, has, items, projs, secs, labs, notes, wss, flds) ==
    [full_sync |-> full, sync_token |-> token, has |-> has,
     items |-> items, projects |-> projs, sections |-> secs, labels |-> labs,
     notes |-> notes, workspaces |-> wss, folders |-> flds,
     user |-> NoUser, sync_status |-> <<>>, temp_id_mapping |-> <<>>]

\* SyncState::save may fail; the failure is only logged.
save_sync_token(a, disk_ok) ==
    IF a.ephemeral THEN a
    ELSE IF disk_ok THEN [a EXCEPT !.persisted = a.sync_token] ELSE a

\* note.item_id.or(note.task_id).unwrap_or_default()
NoteTid(n) ==
    IF n.item_id # NONE THEN n.item_id
    ELSE IF n.task_id # NONE THEN n.task_id ELSE ""

\* One entry of a delta list, appended whether or not the id is known.
MergeOne_Append(list, e) ==
    IF e.is_deleted THEN SelectSeq(list, LAMBDA x : x.id # e.id)
    ELSE Append(list, e)

\* One entry of a delta list: tombstone removes, known id replaces in
\* place, unknown id is appended.
MergeOne(list, e) ==
    LET i == IdxOf(list, e.id)
    IN  IF e.is_deleted THEN SelectSeq(list, LAMBDA x : x.id # e.id)
        ELSE IF i # 0 THEN [list EXCEPT ![i] = e]
        ELSE Append(list, e)

RECURSIVE MergeById(_, _)
MergeById(list, delta) ==
    IF delta = <<>> THEN list
    ELSE MergeById(MergeOne(list, Head(delta)), Tail(delta))

MergeNote(buckets, n) ==
    LET tid == NoteTid(n)
    IN  IF n.is_deleted
        THEN IF tid \in DOMAIN buckets
             THEN [buckets EXCEPT ![tid] = SelectSeq(@, LAMBDA c : c.id # n.id)]
             ELSE buckets
        ELSE IF tid \in DOMAIN buckets
        THEN [buckets EXCEPT ![tid] = MergeOne(@, n)]
        ELSE [t \in DOMAIN buckets \cup {tid} |->
                 IF t = tid THEN <<n>> ELSE buckets[t]]

RECURSIVE MergeNotes(_, _)
MergeNotes(buckets, notes) ==
    IF notes = <<>> THEN buckets
    ELSE MergeNotes(MergeNote(buckets, Head(notes)), Tail(notes))

\* The filter that lets tombstones through.
KeepAll(list) == list

\* The filter that keeps every entry.
Live_All(list) == list

\* .filter(|e| !e.is_deleted)
Live(list) == SelectSeq(list, LAMBDA x : ~x.is_deleted)

\* The full_sync branch of apply_sync_delta.
ApplyFull(a, resp) ==
    LET a1 == IF "projects" \in resp.has
              THEN sort_projects([a EXCEPT !.projects = Live(resp.projects)])
              ELSE a
        live_notes == Live(resp.notes)
        tids == {NoteTid(n) : n \in Range(live_notes)}
    IN  [a1 EXCEPT
            !.tasks = IF "items" \in resp.has THEN Live(resp.items) ELSE @,
            !.labels = IF "labels" \in resp.has THEN Live(resp.labels) ELSE @,
            !.sections = IF "sections" \in resp.has THEN Live(resp.sections) ELSE @,
            !.comments_by_task =
                IF "notes" \in resp.has
                THEN [t \in tids |-> SelectSeq(live_notes, LAMBDA n : NoteTid(n) = t)]
                ELSE @,
            !.workspaces = IF "workspaces" \in resp.has THEN Live(resp.workspaces) ELSE @,
            !.folders = IF "folders" \in resp.has THEN Live(resp.folders) ELSE @,
            !.websocket_url = IF resp.user.has THEN resp.user.websocket_url ELSE @]

\* The delta branch of apply_sync_delta.
ApplyDelta(a, resp) ==
    LET Projects(b) ==
            IF "projects" \in resp.has
            THEN sort_projects([b EXCEPT !.projects = MergeById(@, resp.projects)])
            ELSE b
        Entities(b) ==
            [b EXCEPT
                !.tasks = IF "items" \in resp.has THEN MergeById(@, resp.items) ELSE @,
                !.labels = IF "labels" \in resp.has THEN MergeById(@, resp.labels) ELSE @,
                !.sections = IF "sections" \in resp.has
                             THEN MergeById(@, resp.sections) ELSE @]
        Notes(b, open_task_id, buckets) ==
            [b EXCEPT
                !.comments_by_task = buckets,
                !.comments =
                    IF /\ open_task_id # NONE
                       /\ \E n \in Range(resp.notes) : NoteTid(n) = open_task_id
                       /\ open_task_id \in DOMAIN buckets
                    THEN buckets[open_task_id] ELSE @]
        Comments(b) ==
            IF "notes" \in resp.has
            THEN Notes(b, selected_task_id(b),
                       MergeNotes(b.comments_by_task, resp.notes))
            ELSE b
    IN  Comments(Entities(Projects(a)))

\* The token update without the test for an empty token.
UpdateToken_Always(a, resp, disk_ok) ==
    save_sync_token([a EXCEPT !.sync_token = resp.sync_token], disk_ok)

\* The token update that keeps the newer of the two tokens.
UpdateToken_KeepNewest(a, resp, disk_ok) ==
    LET names == <<"T0", "T1", "T2", "T3", "T4", "T5", "T6", "T7", "T8", "T9",
                   "T10", "T11", "T12">>
        ver(t) == CHOOSE v \in 1..Len(names) : names[v] = t
    IN  IF resp.sync_token # "" /\
           (a.sync_token = "*" \/ ver(resp.sync_token) >= ver(a.sync_token))
        THEN save_sync_token([a EXCEPT !.sync_token = resp.sync_token], disk_ok)
        ELSE a

\* Token update shared by both reply kinds.
UpdateToken(a, resp, disk_ok) ==
    IF resp.sync_token # ""
    THEN save_sync_token([a EXCEPT !.sync_token = resp.sync_token], disk_ok)
    ELSE a

apply_sync_delta(a, resp, disk_ok) ==
    LET merged == IF resp.full_sync THEN ApplyFull(a, resp) ELSE ApplyDelta(a, resp)
    IN  ClampCursor(UpdateToken(merged, resp, disk_ok))

-----------------------------------------------------------------------------
(* Command engine *)

TmpIds == <<"tmp_0", "tmp_1", "tmp_2", "tmp_3", "tmp_4", "tmp_5", "tmp_6",
            "tmp_7", "tmp_8", "tmp_9", "tmp_10", "tmp_11">>

\* format!("tmp_{}", CMD_COUNTER.fetch_add(1)): the id for counter value c.
new_temp_id(c) == TmpIds[c + 1]
\* The uuid embeds the counter value, which makes it unique; it is carried
\* as that value.
new_uuid(c) == c

NoError == [set |-> FALSE, title |-> "", message |-> "", suggestion |-> NONE,
            recoverable |-> TRUE]
AppError(title, message, suggestion) ==
    [set |-> TRUE, title |-> title, message |-> message,
     suggestion |-> suggestion, recoverable |-> TRUE]

\* parse_api_error: the remediation hint selected by the error tag.
suggestion_for(error_tag) ==
    IF error_tag \in {"INVALID_DATE_FORMAT", "BAD_REQUEST"}
    THEN "Try natural language like \"tomorrow\", \"next monday\", or \"Feb 28\""
    ELSE IF error_tag = "NOT_FOUND"
    THEN "The item may have been deleted. Try refreshing."
    ELSE IF error_tag = "FORBIDDEN"
    THEN "You don't have permission for this action."
    ELSE IF error_tag = "UNAUTHORIZED"
    THEN "Your API token may have expired. Check your config."
    ELSE NONE

Put(f, k, v) == [x \in DOMAIN f \cup {k} |-> IF x = k THEN v ELSE f[x]]
Drop_Nothing(f, k) == f
Drop(f, k) == [x \in DOMAIN f \ {k} |-> f[x]]
EmptyMap == [x \in {} |-> 0]

\* flush_commands: the whole pending batch leaves in one request that
\* carries the current sync token and no resource types.
flush_commands_KeepBatch(a) ==
    IF a.pending_commands = <<>> THEN a
    ELSE [a EXCEPT
            !.net = @ \cup {[k |-> "flush", sync_token |-> a.sync_token,
                             resource_types |-> {},
                             commands |-> a.pending_commands, retries |-> 0]}]
flush_commands(a) ==
    IF a.pending_commands = <<>> THEN a
    ELSE [a EXCEPT
            !.pending_commands = <<>>,
            !.net = @ \cup {[k |-> "flush", sync_token |-> a.sync_token,
                             resource_types |-> {},
                             commands |-> a.pending_commands, retries |-> 0]}]

Command(type, temp_id, uuid, args) ==
    [type |-> type, temp_id |-> temp_id, uuid |-> uuid, args |-> args]

apply_temp_id_mapping(a, temp_id, real_id) ==
    [a EXCEPT
        !.tasks = Patch(@, temp_id, "id", real_id),
        !.comments = [i \in 1..Len(@) |->
            [@[i] EXCEPT
                !.id = IF @ = temp_id THEN real_id ELSE @,
                !.item_id = IF @ = temp_id THEN real_id ELSE @]]]

revert_optimistic(a, op) ==
    CASE op.kind = "TaskAdded" ->
             [a EXCEPT !.tasks = SelectSeq(@, LAMBDA t : t.id # op.temp_id)]
      [] op.kind = "TaskRemoved" ->
             [a EXCEPT !.tasks = Append(@, op.snapshot)]
      [] op.kind = "TaskUpdated" ->
             [a EXCEPT !.tasks = Replace(@, op.task_id, op.before)]
      [] op.kind = "CommentAdded" ->
             IF selected_task_id(a) = op.task_id
             THEN [a EXCEPT !.comments = SelectSeq(@, LAMBDA c : c.id # op.temp_id)]
             ELSE a
      [] op.kind = "ProjectUpdated" ->
             sort_projects([a EXCEPT
                 !.projects = Replace(@, op.project_id, op.before)])

\* spawn_comments_fetch
spawn_comments_fetch(a, task_id) ==
    [a EXCEPT
        !.comments_fetch_seq = @ + 1,
        !.net = @ \cup {[k |-> "get_comments", task_id |-> task_id,
                         fetch_seq |-> a.comments_fetch_seq + 1]}]

\* spawn_incremental_sync
spawn_incremental_sync(a) ==
    [a EXCEPT
        !.nsync = @ + 1,
        !.net = @ \cup {[k |-> "sync", rid |-> a.nsync + 1,
                         sync_token |-> a.sync_token, retries |-> 0]}]

\* One entry of the outcome map (the loop body of the CommandResults arm).
\* st = [uuid, is_err, error]; the state is <<app, refresh_comments_for>>.
ReconcileOne(ar, st) ==
    LET a == ar[1]
        known == st.uuid \in DOMAIN a.temp_id_pending
        op == a.temp_id_pending[st.uuid]
        removed == [a EXCEPT !.temp_id_pending = Drop(@, st.uuid)]
    IN  IF st.is_err
        THEN <<[(IF known THEN revert_optimistic(removed, op) ELSE a) EXCEPT
                    !.error = AppError("Command failed", st.error, NONE)],
               ar[2]>>
        ELSE IF known
        THEN <<removed,
               IF op.kind = "CommentAdded" /\ selected_task_id(removed) = op.task_id
               THEN op.task_id ELSE ar[2]>>
        ELSE ar

RECURSIVE ReconcileAll(_, _)
ReconcileAll(ar, statuses) ==
    IF statuses = <<>> THEN ar
    ELSE ReconcileAll(ReconcileOne(ar, Head(statuses)), Tail(statuses))

RECURSIVE MapAll(_, _)
MapAll(a, mapping) ==
    IF mapping = <<>> THEN a
    ELSE MapAll(apply_temp_id_mapping(a, Head(mapping)[1], Head(mapping)[2]),
                Tail(mapping))

\* drain_bg_results, BgResult::CommandResults arm.
on_command_results(a, resp, disk_ok) ==
    LET Mapped(b) == UpdateToken(MapAll(b, resp.temp_id_mapping), resp, disk_ok)
        Finish(ar) == IF ar[2] # NONE
                      THEN spawn_comments_fetch(Mapped(ar[1]), ar[2])
                      ELSE Mapped(ar[1])
    IN  Finish(ReconcileAll(<<a, NONE>>, resp.sync_status))

\* The Comments arm without the sequence-number test.
on_comments_AnySeq(a, task_id, result, fetch_seq) ==
    IF result.ok
    THEN LET a1 == [a EXCEPT
                 !.tasks = Patch(@, task_id, "note_count", Len(result.list)),
                 !.comments_by_task = Put(@, task_id, result.list)]
         IN  IF selected_task_id(a1) = task_id
             THEN [a1 EXCEPT !.comments = result.list]
             ELSE a1
    ELSE [a EXCEPT !.error = AppError("Load comments failed", "transport", NONE)]

\* The Comments arm when a reply with an old sequence number is discarded.
on_comments_CurrentOnly(a, task_id, result, fetch_seq) ==
    IF fetch_seq = a.comments_fetch_seq
    THEN on_comments_AnySeq(a, task_id, result, fetch_seq) ELSE a

\* drain_bg_results, BgResult::Comments arm; `result` is
\* [ok |-> TRUE, list |-> comments] or [ok |-> FALSE, list |-> <<>>].
on_comments(a, task_id, result, fetch_seq) ==
    IF result.ok
    THEN LET a1 == [a EXCEPT
                 !.tasks = Patch(@, task_id, "note_count", Len(result.list)),
                 !.comments_by_task = Put(@, task_id, result.list)]
         IN  IF selected_task_id(a1) = task_id /\ fetch_seq = a1.comments_fetch_seq
             THEN [a1 EXCEPT !.comments = result.list]
             ELSE a1
    ELSE [a EXCEPT !.error = AppError("Load comments failed", "transport", NONE)]

\* is_idle
is_idle(a) == a.idle_timeout_secs > 0 /\ a.elapsed >= a.idle_timeout_secs

\* The WebSocketEvent arm without the idle test.
on_websocket_event_NoDefer(a) == spawn_incremental_sync(a)

\* drain_bg_results, BgResult::WebSocketEvent arm.
on_websocket_event(a) ==
    IF is_idle(a) THEN [a EXCEPT !.pending_ws_sync = TRUE]
    ELSE spawn_incremental_sync(a)

\* The key-press branch without the drain of the deferred push sync.
on_activity_KeepDeferred(a) == [a EXCEPT !.elapsed = 0]

\* The head of the key-press branch of run(): activity bookkeeping and the
\* drain of the deferred push sync.
on_activity(a) ==
    LET woke == [a EXCEPT !.elapsed = 0]
    IN  IF is_idle(a) /\ a.pending_ws_sync
        THEN spawn_incremental_sync([woke EXCEPT !.pending_ws_sync = FALSE])
        ELSE woke

-----------------------------------------------------------------------------
(* User commands *)

complete_selected_task(a) ==
    LET Clamp(b, new_len) ==
            [b EXCEPT !.selected_task =
                IF new_len > 0 /\ @ >= new_len THEN new_len - 1 ELSE @]
        Toggled(b) == Clamp(b, Len(visible_tasks(b)))
        Queue(b, task_id, cmd_type, uuid, bi) ==
            flush_commands([b EXCEPT
                !.CMD_COUNTER = @ + 1,
                !.pending_commands = Append(@,
                    Command(cmd_type, NONE, uuid, [id |-> task_id])),
                !.temp_id_pending =
                    IF bi # 0
                    THEN Put(@, uuid, [kind |-> "TaskUpdated", task_id |-> task_id,
                                       before |-> a.tasks[bi]])
                    ELSE @])
        OnRow(row) ==
            Queue(Toggled([a EXCEPT !.tasks = Patch(@, row.id, "checked", ~row.checked)]),
                  row.id,
                  IF row.checked THEN "item_reopen"
                  ELSE IF row.due.has /\ row.due.is_recurring THEN "item_complete"
                  ELSE "item_close",
                  new_uuid(a.CMD_COUNTER),
                  IdxOf(a.tasks, row.id))
    IN  IF a.selected_task < Len(visible_tasks(a))
        THEN OnRow(visible_tasks(a)[a.selected_task + 1]) ELSE a

\* submit_task_form with a form holding the given content, priority and
\* project (the content is not blank).
submit_task_form(a, content, priority, project_id) ==
    LET temp_id == new_temp_id(a.CMD_COUNTER)
        uuid == new_uuid(a.CMD_COUNTER + 1)
        args == [content |-> content, project_id |-> project_id,
                 priority |-> priority]
    IN  flush_commands([a EXCEPT
            !.CMD_COUNTER = @ + 2,
            !.tasks = Append(@, DefaultTask(temp_id, content, project_id, priority)),
            !.temp_id_pending = Put(@, uuid, [kind |-> "TaskAdded", temp_id |-> temp_id]),
            !.pending_commands = Append(@, Command("item_add", temp_id, uuid, args))])

submit_comment(a, content) ==
    LET Send(task_id, temp_id, uuid) ==
            flush_commands([a EXCEPT
                !.CMD_COUNTER = @ + 2,
                !.comments = Append(@, MkComment(temp_id, content, task_id)),
                !.comments_fetch_seq = @ + 1,
                !.temp_id_pending = Put(@, uuid, [kind |-> "CommentAdded",
                                        temp_id |-> temp_id, task_id |-> task_id]),
                !.pending_commands = Append(@, Command("note_add", temp_id, uuid,
                                        [item_id |-> task_id, content |-> content]))])
    IN  IF selected_task_id(a) = NONE THEN a
        ELSE Send(selected_task_id(a), new_temp_id(a.CMD_COUNTER),
                  new_uuid(a.CMD_COUNTER + 1))

\* submit_field_edit for detail_field 0 (content), 2 (due string) or
\* 3 (description).
submit_field_edit(a, detail_field, value) ==
    LET Send(before, uuid) ==
            flush_commands([a EXCEPT
                !.CMD_COUNTER = @ + 1,
                !.tasks =
                    CASE detail_field = 0 -> Patch(@, before.id, "content", value)
                      [] detail_field = 3 -> Patch(@, before.id, "description", value)
                      [] OTHER -> @,
                !.temp_id_pending = Put(@, uuid, [kind |-> "TaskUpdated",
                                        task_id |-> before.id, before |-> before]),
                !.pending_commands = Append(@, Command("item_update", NONE, uuid,
                    CASE detail_field = 0 -> [id |-> before.id, content |-> value]
                      [] detail_field = 3 -> [id |-> before.id, description |-> value]
                      [] OTHER -> [id |-> before.id, due_string |-> value]))])
    IN  IF SelIdx(a) = 0 \/ detail_field \notin {0, 2, 3} THEN a
        ELSE Send(visible_tasks(a)[a.selected_task + 1], new_uuid(a.CMD_COUNTER))

apply_priority_Resend(a, new_priority) ==
    LET Send(before, uuid) ==
            flush_commands([a EXCEPT
                !.CMD_COUNTER = @ + 1,
                !.tasks = Patch(@, before.id, "priority", new_priority),
                !.temp_id_pending = Put(@, uuid, [kind |-> "TaskUpdated",
                                        task_id |-> before.id, before |-> before]),
                !.pending_commands = Append(@, Command("item_update", NONE, uuid,
                                        [id |-> before.id, priority |-> new_priority]))])
    IN  IF SelIdx(a) = 0 THEN a
        ELSE Send(visible_tasks(a)[a.selected_task + 1], new_uuid(a.CMD_COUNTER))
apply_priority(a, new_priority) ==
    LET Send(before, uuid) ==
            IF before.priority = new_priority THEN a
            ELSE flush_commands([a EXCEPT
                !.CMD_COUNTER = @ + 1,
                !.tasks = Patch(@, before.id, "priority", new_priority),
                !.temp_id_pending = Put(@, uuid, [kind |-> "TaskUpdated",
                                        task_id |-> before.id, before |-> before]),
                !.pending_commands = Append(@, Command("item_update", NONE, uuid,
                                        [id |-> before.id, priority |-> new_priority]))])
    IN  IF SelIdx(a) = 0 THEN a
        ELSE Send(visible_tasks(a)[a.selected_task + 1], new_uuid(a.CMD_COUNTER))

star_selected_project(a) ==
    LET before == a.projects[a.selected_project + 1]
        pid == before.id
        new_fav == ~before.is_favorite
        uuid == new_uuid(a.CMD_COUNTER)
        starred == sort_projects([a EXCEPT
            !.projects = Patch(@, pid, "is_favorite", new_fav)])
    IN  IF a.selected_project >= Len(a.projects) THEN a
        ELSE flush_commands([starred EXCEPT
            !.CMD_COUNTER = @ + 1,
            !.temp_id_pending = Put(@, uuid, [kind |-> "ProjectUpdated",
                                    project_id |-> pid, before |-> before]),
            !.pending_commands = Append(@, Command("project_update", NONE, uuid,
                                    [id |-> pid, is_favorite |-> new_fav]))])

open_detail(a) ==
    LET Open(task, pos) ==
            spawn_comments_fetch([a EXCEPT
                !.selected_project =
                    IF a.dock_filter # "none" /\ pos # 0 THEN pos - 1 ELSE @,
                !.active_pane = "Detail",
                !.comments = IF task.id \in DOMAIN a.comments_by_task
                             THEN a.comments_by_task[task.id] ELSE <<>>],
                task.id)
        OnRow(task) == Open(task, IdxOf(a.projects, task.project_id))
    IN  IF a.selected_task < Len(visible_tasks(a))
        THEN OnRow(visible_tasks(a)[a.selected_task + 1]) ELSE a

-----------------------------------------------------------------------------
(* The service: the other end of the sync protocol.  Every change gets the *)
(* next version number; the sync token of a reply names the version it     *)
(* reflects, and a delta carries what changed after the request's token.   *)

TokNames == <<"T0", "T1", "T2", "T3", "T4", "T5", "T6", "T7", "T8", "T9",
              "T10", "T11", "T12">>
Tok(v) == TokNames[v + 1]
TokVer(tok) == CHOOSE v \in 0..(Len(TokNames) - 1) : Tok(v) = tok

RealIds == <<"i3", "i4", "i5", "i6", "i7", "i8">>
NoteIds == <<"n1", "n2", "n3", "n4", "n5", "n6">>

Stamp(srv, id) == IF id \in DOMAIN srv.stamp THEN srv.stamp[id] ELSE 0
Since(srv, list, v) == SelectSeq(list, LAMBDA e : Stamp(srv, e.id) > v)
Resolve(srv, id) == IF id \in DOMAIN srv.tmap THEN srv.tmap[id] ELSE id
LiveIds(list) == {e.id : e \in Range(Live(list))}

IncrementalKinds == {"items", "projects", "sections", "labels", "notes"}
AllKinds == IncrementalKinds \cup {"collaborators", "workspaces", "folders", "user"}

\* The reply to a read with the given token.
ServerRead(srv, token, kinds) ==
    IF token = "*"
    THEN [Reply(TRUE, Tok(srv.ver), kinds, Live(srv.items), Live(srv.projects),
                Live(srv.sections), Live(srv.labels), Live(srv.notes),
                IF "workspaces" \in kinds THEN srv.workspaces ELSE <<>>,
                IF "folders" \in kinds THEN srv.folders ELSE <<>>)
             EXCEPT !.user = IF "user" \in kinds
                             THEN [has |-> TRUE, websocket_url |-> srv.websocket_url]
                             ELSE NoUser]
    ELSE LET v == TokVer(token)
         IN  Reply(FALSE, Tok(srv.ver), IncrementalKinds,
                   Since(srv, srv.items, v), Since(srv, srv.projects, v),
                   Since(srv, srv.sections, v), Since(srv, srv.labels, v),
                   Since(srv, srv.notes, v), <<>>, <<>>)

Touch(srv, id) == [srv EXCEPT !.ver = @ + 1, !.stamp = Put(@, id, srv.ver + 1)]

\* Whether the service can carry out the command at all.
CanApply(srv, c) ==
    CASE c.type = "item_add" -> c.args.project_id \in LiveIds(srv.projects)
      [] c.type = "note_add" -> Resolve(srv, c.args.item_id) \in LiveIds(srv.items)
      [] c.type = "project_update" -> c.args.id \in LiveIds(srv.projects)
      [] OTHER -> Resolve(srv, c.args.id) \in LiveIds(srv.items)

\* The service's state after carrying out the command.
ServerApply(srv, c) ==
    CASE c.type = "item_add" ->
             LET real == RealIds[srv.nitems + 1]
                 t == [DefaultTask(real, c.args.content, c.args.project_id,
                                   c.args.priority)
                          EXCEPT !.child_order = Len(srv.items) + 1]
             IN  Touch([srv EXCEPT !.items = Append(@, t),
                                   !.nitems = @ + 1,
                                   !.tmap = Put(@, c.temp_id, real)], real)
      [] c.type = "note_add" ->
             LET real == NoteIds[srv.nnotes + 1]
                 n == [MkComment(real, c.args.content, Resolve(srv, c.args.item_id))
                          EXCEPT !.task_id = NONE]
             IN  Touch([srv EXCEPT !.notes = Append(@, n),
                                   !.nnotes = @ + 1,
                                   !.tmap = Put(@, c.temp_id, real)], real)
      [] c.type = "project_update" ->
             Touch([srv EXCEPT !.projects =
                       Patch(@, c.args.id, "is_favorite", c.args.is_favorite)],
                   c.args.id)
      [] c.type = "item_update" ->
             LET id == Resolve(srv, c.args.id)
             IN  Touch([srv EXCEPT !.items =
                     IF "content" \in DOMAIN c.args
                     THEN Patch(@, id, "content", c.args.content)
                     ELSE IF "description" \in DOMAIN c.args
                     THEN Patch(@, id, "description", c.args.description)
                     ELSE IF "priority" \in DOMAIN c.args
                     THEN Patch(@, id, "priority", c.args.priority)
                     ELSE Patch(@, id, "due", Due(TODAY + 1, FALSE))], id)
      [] c.type = "item_close" ->
             LET id == Resolve(srv, c.args.id)
             IN  Touch([srv EXCEPT !.items = Patch(@, id, "checked", TRUE)], id)
      [] c.type = "item_complete" ->
             LET id == Resolve(srv, c.args.id)
             IN  Touch([srv EXCEPT !.items =
                     [i \in 1..Len(@) |->
                         IF @[i].id = id
                         THEN [@[i] EXCEPT !.checked = FALSE, !.due.date = @ + 7]
                         ELSE @[i]]], id)
      [] OTHER ->
             LET id == Resolve(srv, c.args.id)
             IN  Touch([srv EXCEPT !.items = Patch(@, id, "checked", FALSE)], id)

\* The error tag the service sends with a refusal.
RejectTag(type) ==
    IF type = "item_add" THEN "INVALID_DATE_FORMAT"
    ELSE IF type = "note_add" THEN "FORBIDDEN"
    ELSE IF type = "project_update" THEN "LIMIT_REACHED"
    ELSE "NOT_FOUND"

\* Carry out a batch; `accept` is the set of uuids the service does not
\* refuse on its own grounds.  Result: <<service, sync_status, mapping>>.
RECURSIVE ServerBatch(_, _, _, _, _)
ServerBatch(srv, commands, accept, status, mapping) ==
    IF commands = <<>> THEN <<srv, status, mapping>>
    ELSE LET c == Head(commands)
             ok == c.uuid \in accept /\ CanApply(srv, c)
             st == [uuid |-> c.uuid, is_err |-> ~ok,
                    error |-> IF ok THEN "" ELSE "rejected",
                    error_tag |-> IF ok THEN "" ELSE RejectTag(c.type)]
         IN  ServerBatch(IF ok THEN ServerApply(srv, c) ELSE srv,
                         Tail(commands), accept, Append(status, st),
                         IF ok /\ c.temp_id # NONE
                         THEN Append(mapping, <<c.temp_id, Resolve(ServerApply(srv, c), c.temp_id)>>)
                         ELSE mapping)

-----------------------------------------------------------------------------
(* Bounds *)

MaxCommands == 2    \* commands submitted in one run
MaxSyncs == 1       \* incremental syncs spawned in one run
MaxFetch == 2       \* value of comments_fetch_seq up to which the user advances it
MaxPushes == 2      \* push events deferred during one idle period
IdleSecs == 2       \* idle_timeout_secs of the runs that have an idle timeout
MaxMoves == 1       \* times another client re-parents a task
MaxEdits == 2       \* times another client edits or deletes a task
MaxReplays == 1     \* times the service answers again for commands already answered
StaleSyncs == 3     \* incremental syncs spawned in a run with overlapping syncs

Contents == {"C"}
Priorities == {1, 4}

-----------------------------------------------------------------------------
(* Initial states *)

\* App::new.
\* ui_settings.json does not exist.
NoFile == [exists |-> FALSE, theme |-> 0, idle_timeout_secs |-> 0,
           written |-> FALSE]

NewApp(token_on_disk, is_ephemeral, timeout) ==
    [projects |-> <<>>, workspaces |-> <<>>, folders |-> <<>>, tasks |-> <<>>,
     labels |-> <<>>, sections |-> <<>>, comments |-> <<>>,
     comments_by_task |-> EmptyMap, completed_cache |-> EmptyMap,
     selected_project |-> 0, selected_task |-> 0, active_pane |-> "Projects",
     collapsed |-> {}, sort_mode |-> "Default", task_filter |-> "Active",
     dock_filter |-> "none",
     sync_token |-> IF is_ephemeral THEN "*" ELSE token_on_disk,
     persisted |-> token_on_disk, ephemeral |-> is_ephemeral,
     pending_ws_sync |-> FALSE, idle_timeout_secs |-> timeout, elapsed |-> 0,
     theme_idx |-> 0, websocket_url |-> NONE, ui_settings |-> NoFile,
     comments_fetch_seq |-> 0, temp_id_pending |-> EmptyMap, error |-> NoError,
     CMD_COUNTER |-> 0, pending_commands |-> <<>>, nsync |-> 0, net |-> {}]

Ws(id) == [id |-> id, is_deleted |-> FALSE]

\* The account on the service when the client starts: an inbox with task A
\* (recurring, due today) and its subtask B, and either a second personal
\* project or two projects of a workspace.
ServerFixture(with_workspace) ==
    [ver |-> 0, stamp |-> EmptyMap, tmap |-> EmptyMap, nitems |-> 0,
     nnotes |-> 0, nmoves |-> 0, nedits |-> 0, nreplays |-> 0,
     projects |-> IF with_workspace
                  THEN <<MkProject("p1", 0, TRUE, FALSE, NONE, NONE),
                         MkProject("p2", 2, FALSE, FALSE, "w1", NONE),
                         MkProject("p3", 1, FALSE, FALSE, "w1", NONE)>>
                  ELSE <<MkProject("p1", 0, TRUE, FALSE, NONE, NONE),
                         MkProject("p2", 1, FALSE, FALSE, NONE, NONE)>>,
     workspaces |-> IF with_workspace THEN <<Ws("w1")>> ELSE <<>>,
     folders |-> <<>>,
     items |-> <<[MkTask("i1", "A", "p1", NONE, 1) EXCEPT !.due = Due(TODAY, TRUE)],
                 MkTask("i2", "B", "p1", "i1", 1)>>,
     sections |-> <<>>, labels |-> <<>>, notes |-> <<>>,
     websocket_url |-> "wss"]

\* What the claims compare: every entity collection of the replica.
Replica(a) ==
    [projects |-> a.projects, tasks |-> a.tasks, labels |-> a.labels,
     sections |-> a.sections, comments |-> a.comments,
     comments_by_task |-> a.comments_by_task]

NoSnap == [projects |-> <<>>, tasks |-> <<>>, labels |-> <<>>, sections |-> <<>>,
           comments |-> <<>>, comments_by_task |-> EmptyMap]

\* The run_websocket task about to connect for the first time: where it is,
\* its backoff, the failed attempts since the last connection, the length
\* of its last sleep and the messages it has posted.
NoSocket ==
    [spawned |-> 0, at |-> "connect", backoff_secs |-> 5, fails |-> 0,
     slept |-> 0, posted |-> <<>>]

NoReply == Reply(FALSE, "", {}, <<>>, <<>>, <<>>, <<>>, <<>>, <<>>, <<>>)

\* The observation record: the kind of the last step, the replica just
\* before the last command was submitted (while nothing else has happened
\* on the client since), the commands rejected so far, the commands whose
\* flush call failed, each with the number of incremental syncs spawned up
\* to then, the reply the last step applied, the token of the last applied
\* reply (tok_any), of the last applied reply that carried one (tok) and of
\* the last one written to disk (disk), the push events deferred in the
\* current idle period, the incremental syncs the run may spawn, those
\* spawned while no other sync was under way (solo), and how many syncs had
\* been spawned when a reply older than the token in memory last changed the
\* tasks (stale, 0 when none did), the syncs spawned since none was last
\* under way (burst) and the longest such run (overlap), the completed-task
\* fetches spawned (ncache), the task cursor just before the delta the last
\* step applied (cursor) and the request of load_with_splash (req).  For a
\* command reply, seq is 1 when none of its uuids had a reversal record left;
\* for a priority key, seq is the priority that was picked.  For the date
\* helpers: the day number drawn (days), the date computed from it (date), a
\* second date (other) and the day number computed back (back).
NoHist ==
    [kind |-> "init", uuid |-> -1, seq |-> -1,
     snap |-> NoSnap, clean |-> FALSE, ncmd |-> 0, lost |-> {}, rejected |-> {},
     resp |-> NoReply, tok_any |-> "*", tok |-> "*", disk |-> "*", npush |-> 0,
     max_syncs |-> MaxSyncs, solo |-> {}, stale |-> 0,
     burst |-> 0, overlap |-> 0, ncache |-> 0, cursor |-> 0,
     req |-> [sync_token |-> "", resource_types |-> {}, commands |-> <<>>],
     days |-> 0, date |-> <<0, 0, 0>>, other |-> <<0, 0, 0>>, back |-> 0]

Init ==
    /\ Becomes0(NewApp("*", TRUE, 0))
    /\ pc = "load"
    /\ server = ServerFixture(TRUE)
    /\ wsock = NoSocket
    /\ hist = NoHist

-----------------------------------------------------------------------------
(* Steps of the client.  A key press first runs on_activity, then the      *)
(* handler; while an error popup is shown a key press only dismisses it.   *)

\* The observation record after a client step of the given kind.
Seen(kind) ==
    [hist EXCEPT !.kind = kind, !.uuid = -1, !.seq = -1, !.cursor = 0,
                 !.snap = NoSnap, !.clean = FALSE, !.resp = NoReply]

\* The observation record h once the step has applied this reply.
Applied(h, resp, disk_ok) ==
    [h EXCEPT
        !.resp = resp,
        !.tok_any = resp.sync_token,
        !.tok = IF resp.sync_token # "" THEN resp.sync_token ELSE @,
        !.disk = IF resp.sync_token # "" /\ ~ephemeral /\ disk_ok
                 THEN resp.sync_token ELSE @]

Looping == pc \in {"run", "offline"}
CanKey == Looping /\ ~error.set
CanCommand == CanKey /\ hist.ncmd < MaxCommands

load_request_OwnToken(a) ==
    [sync_token |-> a.sync_token, resource_types |-> AllKinds, commands |-> <<>>]

\* The SyncRequest of load_with_splash.
load_request(a) ==
    [sync_token |-> "*",
     resource_types |-> {"items", "projects", "sections", "labels", "notes",
                         "collaborators", "workspaces", "folders", "user"},
     commands |-> <<>>]

\* spawn_websocket: one more run_websocket task.
spawn_websocket(w) == [w EXCEPT !.spawned = @ + 1]

\* load_with_splash: the full sync that precedes the main loop.
LoadWithSplash ==
    /\ pc = "load"
    /\ LET req == load_request(Self)
           resp == ServerRead(server, req.sync_token, req.resource_types)
       IN  \/ \E disk_ok \in BOOLEAN :
                 LET applied == apply_sync_delta(Self, resp, disk_ok)
                 IN  /\ pc' = "run"
                     /\ Becomes(applied)
                     /\ wsock' = IF applied.websocket_url # NONE
                                 THEN spawn_websocket(wsock) ELSE wsock
                     /\ hist' = [Applied(Seen("full"), resp, disk_ok)
                                    EXCEPT !.req = req]
           \/ /\ Becomes([Self EXCEPT !.error =
                     AppError("Initial sync failed", "transport", NONE)])
              /\ hist' = [Seen("load_failed") EXCEPT !.req = req]
              /\ pc' = "offline"
              /\ UNCHANGED wsock
    /\ UNCHANGED server

DismissError ==
    /\ Looping /\ error.set
    /\ Becomes([on_activity(Self) EXCEPT !.error = NoError])
    /\ hist' = Seen("key")
    /\ UNCHANGED <<pc, server, wsock>>

\* Tab / Enter / Esc between the project list and the task list.
SwitchPane ==
    /\ CanKey /\ active_pane \in {"Projects", "Tasks"}
    /\ Becomes([on_activity(Self) EXCEPT
           !.active_pane = IF @ = "Projects" THEN "Tasks" ELSE "Projects",
           !.dock_filter = IF active_pane = "Tasks" THEN "none" ELSE @])
    /\ hist' = Seen("key")
    /\ UNCHANGED <<pc, server, wsock>>

\* move_in_pane
move_in_pane(a, delta) ==
    LET Wrap(visible_len) ==
            IF visible_len = 0 THEN a
            ELSE [a EXCEPT !.selected_task = (@ + delta) % visible_len]
    IN  IF a.active_pane = "Projects"
        THEN IF Len(a.projects) = 0 THEN a
             ELSE [a EXCEPT
                     !.selected_project = (@ + delta) % Len(a.projects),
                     !.selected_task = 0]
        ELSE IF a.active_pane = "Tasks" THEN Wrap(Len(visible_tasks(a)))
        ELSE a

\* j / k in the project list.
MoveProject ==
    /\ CanKey /\ active_pane = "Projects"
    /\ \E delta \in {-1, 1} : Becomes(move_in_pane(on_activity(Self), delta))
    /\ hist' = Seen("key")
    /\ UNCHANGED <<pc, server, wsock>>

\* j / k in the task list.
MoveTask ==
    /\ CanKey /\ active_pane = "Tasks"
    /\ \E delta \in {-1, 1} : Becomes(move_in_pane(on_activity(Self), delta))
    /\ hist' = Seen("key")
    /\ UNCHANGED <<pc, server, wsock>>

\* 'o' in the task pane: SortMode::next.
CycleSort ==
    /\ CanKey /\ active_pane = "Tasks"
    /\ Becomes([on_activity(Self) EXCEPT !.sort_mode =
           CASE @ = "Default" -> "Priority"
             [] @ = "Priority" -> "DueDate"
             [] @ = "DueDate" -> "Created"
             [] OTHER -> "Default"])
    /\ hist' = Seen("key")
    /\ UNCHANGED <<pc, server, wsock>>

OpenDetail ==
    /\ CanKey /\ active_pane = "Tasks"
    /\ selected_task < Len(visible_tasks(Self))
    /\ comments_fetch_seq < MaxFetch
    /\ Becomes([open_detail(on_activity(Self)) EXCEPT !.dock_filter = "none"])
    /\ hist' = Seen("key")
    /\ UNCHANGED <<pc, server, wsock>>

CloseDetail ==
    /\ CanKey /\ active_pane = "Detail"
    /\ Becomes([on_activity(Self) EXCEPT !.active_pane = "Tasks"])
    /\ hist' = Seen("key")
    /\ UNCHANGED <<pc, server, wsock>>

\* The observation record after submitting the command with this uuid.
Submitted(uuid) ==
    [hist EXCEPT !.kind = "submit", !.uuid = uuid, !.seq = -1, !.ncmd = @ + 1,
                 !.snap = Replica(Self), !.clean = TRUE]

CompleteTask ==
    /\ CanCommand /\ active_pane \in {"Tasks", "Detail"}
    /\ selected_task < Len(visible_tasks(Self))
    /\ Becomes(complete_selected_task(on_activity(Self)))
    /\ hist' = Submitted(new_uuid(CMD_COUNTER))
    /\ UNCHANGED <<pc, server, wsock>>

SubmitTaskForm ==
    /\ CanCommand /\ active_pane = "Tasks"
    /\ current_project_id(Self) # NONE
    /\ \E content \in Contents :
           Becomes(submit_task_form(on_activity(Self), content, 1,
                                    current_project_id(Self)))
    /\ hist' = Submitted(new_uuid(CMD_COUNTER + 1))
    /\ UNCHANGED <<pc, server, wsock>>

SubmitComment ==
    /\ CanCommand /\ active_pane = "Detail"
    /\ SelIdx(Self) # 0
    /\ comments_fetch_seq < MaxFetch
    /\ \E content \in Contents : Becomes(submit_comment(on_activity(Self), content))
    /\ hist' = Submitted(new_uuid(CMD_COUNTER + 1))
    /\ UNCHANGED <<pc, server, wsock>>

SubmitFieldEdit ==
    /\ CanCommand /\ active_pane = "Detail"
    /\ SelIdx(Self) # 0
    /\ \E field \in {0, 2, 3}, value \in Contents :
           Becomes(submit_field_edit(on_activity(Self), field, value))
    /\ hist' = Submitted(new_uuid(CMD_COUNTER))
    /\ UNCHANGED <<pc, server, wsock>>

ApplyPriority ==
    /\ CanCommand /\ active_pane = "Detail"
    /\ SelIdx(Self) # 0
    /\ \E p \in Priorities :
           LET after == apply_priority(on_activity(Self), p)
           IN  /\ Becomes(after)
               /\ hist' = [(IF after.CMD_COUNTER = CMD_COUNTER THEN Seen("key")
                            ELSE Submitted(new_uuid(CMD_COUNTER)))
                              EXCEPT !.seq = p]
    /\ UNCHANGED <<pc, server, wsock>>

StarProject ==
    /\ CanCommand /\ active_pane = "Projects"
    /\ selected_project < Len(projects)
    /\ Becomes(star_selected_project(on_activity(Self)))
    /\ hist' = Submitted(new_uuid(CMD_COUNTER))
    /\ UNCHANGED <<pc, server, wsock>>

-----------------------------------------------------------------------------
(* Background tasks, the service and the result channel *)

ErrUuids(resp) ==
    {resp.sync_status[i].uuid : i \in {j \in 1..Len(resp.sync_status) :
                                          resp.sync_status[j].is_err}}

\* The service carries out a flushed batch and answers.
ServerFlush ==
    \E m \in net :
        /\ m.k = "flush"
        /\ \E accept \in SUBSET {m.commands[i].uuid : i \in 1..Len(m.commands)} :
            LET r == ServerBatch(server, m.commands, accept, <<>>, <<>>)
                resp == [Reply(FALSE, Tok(r[1].ver), {}, <<>>, <<>>, <<>>, <<>>,
                               <<>>, <<>>, <<>>)
                            EXCEPT !.sync_status = r[2], !.temp_id_mapping = r[3]]
            IN  /\ server' = r[1]
                /\ net' = (net \ {m}) \cup {[k |-> "CommandResults", resp |-> resp]}
        /\ UNCHANGED <<hist, wsock>>
        /\ UNCHANGED <<projects, workspaces, folders, tasks, labels, sections,
                       comments, comments_by_task, completed_cache,
                       selected_project, selected_task, active_pane, collapsed,
                       sort_mode, task_filter, dock_filter, sync_token, persisted,
                       ephemeral, pending_ws_sync, idle_timeout_secs, elapsed,
                       theme_idx, websocket_url, ui_settings,
                       comments_fetch_seq, temp_id_pending, error, CMD_COUNTER,
                       pending_commands, nsync, pc>>

ClientUnchanged ==
    UNCHANGED <<projects, workspaces, folders, tasks, labels, sections,
                comments, comments_by_task, completed_cache,
                selected_project, selected_task, active_pane, collapsed,
                sort_mode, task_filter, dock_filter, sync_token, persisted,
                ephemeral, pending_ws_sync, idle_timeout_secs, elapsed,
                theme_idx, websocket_url, ui_settings,
                comments_fetch_seq, temp_id_pending, error, CMD_COUNTER,
                pending_commands, nsync, pc>>

\* client.sync(&req) of a flush fails before the request reaches the
\* service: nothing is posted to the channel, the batch is gone.
FlushFails ==
    \E m \in net :
        /\ m.k = "flush"
        /\ net' = net \ {m}
        /\ hist' = [hist EXCEPT
               !.lost = @ \cup {[uuid |-> m.commands[i].uuid, nsync |-> nsync] :
                                   i \in 1..Len(m.commands)}]
        /\ ClientUnchanged /\ UNCHANGED <<server, wsock>>

\* The call fails after the service has answered (the reply is lost).
ReplyLost ==
    \E m \in net :
        /\ m.k \in {"CommandResults", "SyncDelta"}
        /\ net' = net \ {m}
        /\ UNCHANGED hist
        /\ ClientUnchanged /\ UNCHANGED <<server, wsock>>

RecvCommandResults ==
    \E m \in net, disk_ok \in BOOLEAN :
        /\ m.k = "CommandResults" /\ pc = "run"
        /\ Becomes(on_command_results([Self EXCEPT !.net = @ \ {m}], m.resp, disk_ok))
        /\ hist' = [Applied(Seen(IF hist.clean /\ hist.uuid \in ErrUuids(m.resp)
                                  THEN "rollback" ELSE "results"), m.resp, disk_ok)
                        EXCEPT
               !.snap = IF hist.clean /\ hist.uuid \in ErrUuids(m.resp)
                        THEN hist.snap ELSE NoSnap,
               !.rejected = @ \cup ErrUuids(m.resp),
               !.seq = IF /\ m.resp.sync_status # <<>>
                          /\ \A i \in 1..Len(m.resp.sync_status) :
                                m.resp.sync_status[i].uuid
                                    \notin DOMAIN temp_id_pending
                       THEN 1 ELSE 0]
        /\ UNCHANGED <<pc, server, wsock>>

\* The service sends once more the outcomes of commands whose reply the
\* client has just applied.
ReplayResults ==
    /\ pc = "run" /\ server.nreplays < MaxReplays
    /\ hist.kind \in {"results", "rollback"} /\ hist.resp.sync_status # <<>>
    /\ net' = net \cup {[k |-> "CommandResults", resp |-> hist.resp]}
    /\ server' = [server EXCEPT !.nreplays = @ + 1]
    /\ UNCHANGED <<wsock, hist>> /\ ClientUnchanged

\* A frame arrives on the push channel and is drained.
PushEvent ==
    /\ pc = "run" /\ wsock.spawned > 0 /\ nsync < hist.max_syncs
    /\ (is_idle(Self) /\ pending_ws_sync) => hist.npush < MaxPushes
    /\ Becomes(on_websocket_event(Self))
    /\ LET alone == \A m \in net : m.k \notin {"sync", "SyncDelta"}
           burst == IF is_idle(Self) THEN hist.burst
                    ELSE IF alone THEN 1 ELSE hist.burst + 1
       IN  hist' = [Seen("ws_event") EXCEPT
                       !.npush = IF ~is_idle(Self) THEN 0
                                 ELSE IF pending_ws_sync THEN @ + 1 ELSE 1,
                       !.solo = IF ~is_idle(Self) /\ alone
                                THEN @ \cup {nsync + 1} ELSE @,
                       !.burst = burst,
                       !.overlap = IF burst > @ THEN burst ELSE @]
    /\ UNCHANGED <<pc, server, wsock>>

\* A second passes without a key press (last_activity.elapsed() grows).
Tick ==
    /\ Looping /\ elapsed < idle_timeout_secs
    /\ elapsed' = elapsed + 1
    /\ UNCHANGED <<projects, workspaces, folders, tasks, labels, sections,
                   comments, comments_by_task, completed_cache,
                   selected_project, selected_task, active_pane, collapsed,
                   sort_mode, task_filter, dock_filter, sync_token, persisted,
                   ephemeral, pending_ws_sync, idle_timeout_secs,
                   theme_idx, websocket_url, ui_settings,
                   comments_fetch_seq, temp_id_pending, error, CMD_COUNTER,
                   pending_commands, nsync, net, pc, server, wsock, hist>>

ServerSync ==
    \E m \in net :
        /\ m.k = "sync"
        /\ net' = (net \ {m}) \cup
               {[k |-> "SyncDelta", rid |-> m.rid,
                 resp |-> ServerRead(server, m.sync_token, IncrementalKinds)]}
        /\ UNCHANGED hist
        /\ ClientUnchanged /\ UNCHANGED <<server, wsock>>

\* Another client renames a task or deletes one that has no subtasks.
ServerEdit ==
    /\ server.nedits < MaxEdits
    /\ \E i \in 1..Len(server.items), delete \in BOOLEAN :
          /\ ~server.items[i].is_deleted
          /\ delete => \A j \in 1..Len(server.items) :
                           server.items[j].is_deleted \/
                           server.items[j].parent_id # server.items[i].id
          /\ ~delete => server.items[i].content # "C"
          /\ server' = [Touch(server, server.items[i].id) EXCEPT
                 !.nedits = @ + 1,
                 !.items = IF delete THEN [@ EXCEPT ![i].is_deleted = TRUE]
                           ELSE [@ EXCEPT ![i].content = "C"]]
    /\ UNCHANGED <<hist, wsock>>
    /\ UNCHANGED net /\ ClientUnchanged

\* Another client turns a subtask and its top-level parent around: the
\* subtask becomes top-level and its former parent becomes its child.  Both
\* changes are one step of the service, whose parent chains stay acyclic.
ServerReparent ==
    /\ server.nmoves < MaxMoves
    /\ \E c, p \in 1..Len(server.items) :
          /\ ~server.items[c].is_deleted /\ ~server.items[p].is_deleted
          /\ server.items[c].parent_id = server.items[p].id
          /\ server.items[p].parent_id = NONE
          /\ server' = [server
                 EXCEPT !.ver = server.ver + 1,
                        !.stamp = [x \in DOMAIN server.stamp \cup
                                        {server.items[c].id, server.items[p].id} |->
                                     IF x \in {server.items[c].id, server.items[p].id}
                                     THEN server.ver + 1 ELSE server.stamp[x]],
                        !.nmoves = @ + 1,
                        !.items = [@ EXCEPT ![c].parent_id = NONE,
                                            ![p].parent_id = server.items[c].id]]
    /\ UNCHANGED <<hist, wsock>>
    /\ UNCHANGED net /\ ClientUnchanged

\* Replies the client must cope with whatever the service's state is: a
\* tombstone, the same id twice, a note and its tombstone, and entities of
\* every other kind with tombstones among them.
Tomb(e) == [e EXCEPT !.is_deleted = TRUE]
MkLabel(id) == [id |-> id, is_deleted |-> FALSE]
MkSection(id, project_id, section_order) ==
    [id |-> id, project_id |-> project_id, section_order |-> section_order,
     is_deleted |-> FALSE]
MkFolder(id, workspace_id, child_order) ==
    [id |-> id, workspace_id |-> workspace_id, child_order |-> child_order,
     is_deleted |-> FALSE]

ItemLists ==
    {<<>>,
     <<Tomb(MkTask("i2", "B", "p1", "i1", 1))>>,
     <<[MkTask("i1", "A", "p1", NONE, 1) EXCEPT !.content = "C"],
       [MkTask("i1", "A", "p1", NONE, 1) EXCEPT !.priority = 4]>>}
NoteLists ==
    {<<>>,
     <<MkComment("n1", "C", "i1")>>,
     <<MkComment("n1", "C", "i1"), Tomb(MkComment("n1", "C", "i1"))>>}
NoOthers ==
    [projects |-> <<>>, sections |-> <<>>, labels |-> <<>>,
     workspaces |-> <<>>, folders |-> <<>>]
SomeOthers ==
    [projects |-> <<Tomb(MkProject("p2", 2, FALSE, FALSE, "w1", NONE)),
                    MkProject("p4", 0, FALSE, FALSE, "w1", "f1")>>,
     sections |-> <<MkSection("s1", "p1", 1), Tomb(MkSection("s2", "p1", 2))>>,
     labels |-> <<MkLabel("l1"), Tomb(MkLabel("l2"))>>,
     workspaces |-> <<Ws("w1"), Tomb(Ws("w2"))>>,
     folders |-> <<MkFolder("f1", "w1", 1), Tomb(MkFolder("f2", "w1", 2))>>]
ReplyTokens == {"", "T9"}

\* A full reply carries every kind asked for; an incremental one the kinds
\* that changed.
AnyReply(full, token, items, notes, others) ==
    Reply(full, token,
          IF full THEN AllKinds
          ELSE {k \in IncrementalKinds :
                   [items |-> items, notes |-> notes, projects |-> others.projects,
                    sections |-> others.sections, labels |-> others.labels][k]
                       # <<>>},
          items, others.projects, others.sections, others.labels, notes,
          others.workspaces, others.folders)

AnyReplies ==
    {AnyReply(full, token, items, notes, others) :
        full \in BOOLEAN, token \in ReplyTokens, items \in ItemLists,
        notes \in NoteLists, others \in {NoOthers, SomeOthers}}

TokenReplies == {AnyReply(FALSE, token, <<>>, <<>>, NoOthers) : token \in ReplyTokens}

\* The service answers an incremental sync with one of the given replies.
AnswerSync(replies) ==
    \E m \in net, resp \in replies :
        /\ m.k = "sync"
        /\ net' = (net \ {m}) \cup {[k |-> "SyncDelta", rid |-> m.rid, resp |-> resp]}
        /\ UNCHANGED hist
        /\ ClientUnchanged /\ UNCHANGED <<server, wsock>>

ServerSyncAny == AnswerSync(AnyReplies)
ServerSyncToken == AnswerSync(TokenReplies)

SyncFails ==
    \E m \in net :
        /\ m.k = "sync"
        /\ net' = net \ {m}
        /\ UNCHANGED hist
        /\ ClientUnchanged /\ UNCHANGED <<server, wsock>>

RecvSyncDelta ==
    \E m \in net, disk_ok \in BOOLEAN :
        /\ m.k = "SyncDelta" /\ pc = "run"
        /\ Becomes(apply_sync_delta([Self EXCEPT !.net = @ \ {m}], m.resp, disk_ok))
        /\ hist' = [Applied(Seen(IF m.resp.full_sync THEN "full" ELSE "delta"),
                            m.resp, disk_ok) EXCEPT
               !.seq = m.rid,
               !.cursor = selected_task,
               !.stale = IF /\ m.resp.sync_token \notin {"", "*"}
                            /\ sync_token \notin {"", "*"}
                            /\ TokVer(m.resp.sync_token) < TokVer(sync_token)
                            /\ tasks' # tasks
                         THEN nsync ELSE @]
        /\ UNCHANGED <<pc, server, wsock>>

\* The comments endpoint answers (or the call fails).
ServerComments ==
    \E m \in net, ok \in BOOLEAN :
        /\ m.k = "get_comments"
        /\ net' = (net \ {m}) \cup
               {[k |-> "Comments", task_id |-> m.task_id, fetch_seq |-> m.fetch_seq,
                 result |-> [ok |-> ok, list |-> IF ok
                     THEN SelectSeq(Live(server.notes), LAMBDA n :
                              n.item_id = Resolve(server, m.task_id))
                     ELSE <<>>]]}
        /\ UNCHANGED hist
        /\ ClientUnchanged /\ UNCHANGED <<server, wsock>>

\* The loop of drain_bg_results takes this message off the channel.
RecvCommentsMsg(m) ==
    /\ m.k = "Comments" /\ pc = "run"
    /\ Becomes(on_comments([Self EXCEPT !.net = @ \ {m}], m.task_id,
                           m.result, m.fetch_seq))
    /\ hist' = [Seen(IF m.result.ok THEN "comments" ELSE "comments_failed")
                    EXCEPT !.seq = m.fetch_seq]
    /\ UNCHANGED <<pc, server, wsock>>

RecvComments == \E m \in net : RecvCommentsMsg(m)

-----------------------------------------------------------------------------
(* Settings *)

OPTIONS == <<60, 120, 300, 600, 900, 1800>>
DEBUG_OPTIONS == <<5, 60, 120, 300, 600, 900, 1800>>
MaxThemes == 3      \* themes the picker offers (Theme::builtin has ten)

save_ui_settings_Always(a) ==
    [a EXCEPT !.ui_settings =
        [exists |-> TRUE, theme |-> a.theme_idx,
         idle_timeout_secs |-> a.idle_timeout_secs, written |-> TRUE]]

\* save_ui_settings: the file is rewritten with the theme and the timeout.
save_ui_settings(a) ==
    IF a.ephemeral THEN a
    ELSE [a EXCEPT !.ui_settings =
             [exists |-> TRUE, theme |-> a.theme_idx,
              idle_timeout_secs |-> a.idle_timeout_secs, written |-> TRUE]]

cycle_idle_timeout(a, idle_forcer) ==
    LET options == IF idle_forcer THEN DEBUG_OPTIONS ELSE OPTIONS
        found == First({i \in 1..Len(options) : options[i] = a.idle_timeout_secs})
        pos == IF found = 0 THEN 2 ELSE found - 1
    IN  save_ui_settings([a EXCEPT !.idle_timeout_secs =
            options[((pos + 1) % Len(options)) + 1]])

\* The idle timeout is moved to its next option.
CycleIdleTimeout ==
    /\ CanKey
    /\ \E idle_forcer \in BOOLEAN :
          Becomes(cycle_idle_timeout(on_activity(Self), idle_forcer))
    /\ hist' = Seen("settings")
    /\ UNCHANGED <<pc, server, wsock>>

\* KeyAction::SelectTheme, on the entry the theme picker has selected.
SelectTheme ==
    /\ CanKey
    /\ \E theme_selection \in 0..(MaxThemes - 1) :
          Becomes(save_ui_settings(
              [on_activity(Self) EXCEPT !.theme_idx = theme_selection]))
    /\ hist' = Seen("settings")
    /\ UNCHANGED <<pc, server, wsock>>

-----------------------------------------------------------------------------
(* Filter, folds and the completed-task cache *)

MaxCacheFetch == 2  \* completed-task fetches the run may spawn

has_children(a, task_id) ==
    \E i \in 1..Len(a.tasks) : a.tasks[i].parent_id = task_id

\* spawn_completed_tasks_fetch: the request goes out on a background task.
spawn_completed_tasks_fetch(a, project_id, n) ==
    [a EXCEPT !.net = @ \cup
        {[k |-> "get_completed_tasks", project_id |-> project_id, n |-> n]}]

TaskFilter_next(f) ==
    CASE f = "Active" -> "Done"
      [] f = "Done" -> "Both"
      [] OTHER -> "Active"

cycle_task_filter(a, n) ==
    LET b == [a EXCEPT !.task_filter = TaskFilter_next(@)]
        pid == current_project_id(b)
        c == IF b.task_filter \in {"Done", "Both"} /\ pid # NONE
                /\ pid \notin DOMAIN b.completed_cache
             THEN spawn_completed_tasks_fetch(b, pid, n) ELSE b
    IN  ClampCursor(c)

toggle_collapse(a) ==
    LET visible == visible_tasks(a)
        Fold(task) ==
            IF has_children(a, task.id)
            THEN [a EXCEPT !.collapsed =
                     IF task.id \in @ THEN @ \ {task.id} ELSE @ \cup {task.id}]
            ELSE IF task.parent_id # NONE
            THEN LET b == [a EXCEPT !.collapsed = @ \cup {task.parent_id}]
                     pos == IdxOf(visible_tasks(b), task.parent_id)
                 IN  IF pos # 0 THEN [b EXCEPT !.selected_task = pos - 1] ELSE b
            ELSE a
    IN  IF a.selected_task < Len(visible)
        THEN Fold(visible[a.selected_task + 1]) ELSE a

close_all_folds_None(a) == a

close_all_folds(a) ==
    LET parent_ids == {t.parent_id : t \in Range(a.tasks)} \ {NONE}
    IN  [a EXCEPT !.collapsed =
            @ \cup {t.id : t \in {u \in Range(a.tasks) : u.id \in parent_ids}}]

\* KeyAction::CycleFilter
CycleFilter ==
    /\ CanKey /\ active_pane = "Tasks"
    /\ Becomes(cycle_task_filter(on_activity(Self), hist.ncache + 1))
    /\ net' # net => hist.ncache < MaxCacheFetch
    /\ hist' = [Seen("key") EXCEPT !.ncache =
                   IF net' # net THEN @ + 1 ELSE @]
    /\ UNCHANGED <<pc, server, wsock>>

\* KeyAction::ToggleCollapse
ToggleCollapse ==
    /\ CanKey /\ active_pane = "Tasks"
    /\ Becomes(toggle_collapse(on_activity(Self)))
    /\ hist' = Seen("toggle_collapse")
    /\ UNCHANGED <<pc, server, wsock>>

\* KeyAction::CloseAllFolds
CloseAllFolds ==
    /\ CanKey
    /\ Becomes(close_all_folds(on_activity(Self)))
    /\ hist' = Seen("close_all_folds")
    /\ UNCHANGED <<pc, server, wsock>>

\* KeyAction::OpenAllFolds
OpenAllFolds ==
    /\ CanKey
    /\ Becomes([on_activity(Self) EXCEPT !.collapsed = {}])
    /\ hist' = Seen("open_all_folds")
    /\ UNCHANGED <<pc, server, wsock>>

\* A completed task as the completed-tasks endpoint returns it.
CachedTask(id, project_id, parent_id, child_order) ==
    [MkTask(id, "done", project_id, parent_id, child_order)
        EXCEPT !.checked = TRUE]

\* What the endpoint may answer for a project: no record, one completed
\* task or two, each either top-level, a subtask of an open task, or (the
\* second) a subtask of the first.
CompletedReplies(project_id) ==
    {<<>>} \cup
    {<<CachedTask("c1", project_id, p1, 1)>> : p1 \in {NONE, "i1", "i2"}} \cup
    {<<CachedTask("c1", project_id, p1, 1), CachedTask("c2", project_id, p2, 2)>> :
        p1 \in {NONE, "i1"}, p2 \in {"i1", "c1"}}

\* drain_bg_results, BgResult::CompletedTasks
on_completed_tasks(a, project_id, ok, records) ==
    IF ok THEN [a EXCEPT !.completed_cache = Put(@, project_id, records)]
    ELSE [a EXCEPT !.error =
             AppError("Load completed tasks failed", "transport", NONE)]

RecvCompletedTasks ==
    \E m \in net :
        /\ m.k = "get_completed_tasks" /\ Looping
        /\ \/ \E records \in CompletedReplies(m.project_id) :
                Becomes(on_completed_tasks([Self EXCEPT !.net = @ \ {m}],
                                           m.project_id, TRUE, records))
           \/ Becomes(on_completed_tasks([Self EXCEPT !.net = @ \ {m}],
                                         m.project_id, FALSE, <<>>))
        /\ hist' = Seen("completed_tasks")
        /\ UNCHANGED <<pc, server, wsock>>

Next ==
    \/ LoadWithSplash
    \/ DismissError
    \/ SwitchPane
    \/ MoveProject
    \/ MoveTask
    \/ OpenDetail
    \/ CloseDetail
    \/ CompleteTask
    \/ SubmitTaskForm
    \/ SubmitComment
    \/ SubmitFieldEdit
    \/ ApplyPriority
    \/ StarProject
    \/ ServerFlush
    \/ FlushFails
    \/ ReplyLost
    \/ RecvCommandResults
    \/ PushEvent
    \/ ServerSync
    \/ SyncFails
    \/ RecvSyncDelta
    \/ ServerComments
    \/ RecvComments
    \/ Tick
    \/ ServerSyncAny
    \/ ServerSyncToken
    \/ ServerReparent
    \/ ServerEdit
    \/ ReplayResults
    \/ CycleSort
    \/ CycleFilter
    \/ ToggleCollapse
    \/ CloseAllFolds
    \/ OpenAllFolds
    \/ RecvCompletedTasks
    \/ CycleIdleTimeout
    \/ SelectTheme

\* The whole client with its environment.  The specifications below restrict
\* it to the steps one group of properties is about.
Spec == Init /\ [][Next]_vars

\* Commands that edit existing entities, accepted or rejected by the service.
NextRollback ==
    \/ LoadWithSplash
    \/ DismissError
    \/ SwitchPane
    \/ MoveProject
    \/ OpenDetail
    \/ CloseDetail
    \/ CompleteTask
    \/ SubmitFieldEdit
    \/ ApplyPriority
    \/ StarProject
    \/ ServerFlush
    \/ RecvCommandResults

SpecRollback == Init /\ [][NextRollback]_vars

\* Commands that create entities under temporary ids.
NextTempId ==
    \/ LoadWithSplash
    \/ DismissError
    \/ SwitchPane
    \/ MoveTask
    \/ OpenDetail
    \/ CloseDetail
    \/ SubmitTaskForm
    \/ SubmitComment
    \/ ServerFlush
    \/ RecvCommandResults

SpecTempId == Init /\ [][NextTempId]_vars

\* Task creation racing with incremental syncs and transport failures.
NextSync ==
    \/ LoadWithSplash
    \/ DismissError
    \/ SwitchPane
    \/ SubmitTaskForm
    \/ ServerFlush
    \/ FlushFails
    \/ ReplyLost
    \/ RecvCommandResults
    \/ PushEvent
    \/ ServerSync
    \/ SyncFails
    \/ RecvSyncDelta

SpecSync == Init /\ [][NextSync]_vars

\* Opening tasks, commenting on them and fetching their comments.
NextComments ==
    \/ LoadWithSplash
    \/ DismissError
    \/ SwitchPane
    \/ MoveTask
    \/ OpenDetail
    \/ CloseDetail
    \/ SubmitComment
    \/ ServerFlush
    \/ RecvCommandResults
    \/ ServerComments
    \/ RecvComments

SpecComments == Init /\ [][NextComments]_vars

\* A client with an idle timeout: time passes, keys are pressed and push
\* events arrive.
InitIdle ==
    /\ Becomes0(NewApp("*", TRUE, IdleSecs))
    /\ pc = "load"
    /\ server = ServerFixture(TRUE)
    /\ wsock = NoSocket
    /\ hist = NoHist

NextIdle ==
    \/ LoadWithSplash
    \/ DismissError
    \/ SwitchPane
    \/ MoveProject
    \/ MoveTask
    \/ Tick
    \/ PushEvent
    \/ ServerSync
    \/ SyncFails
    \/ RecvSyncDelta

SpecIdle == InitIdle /\ [][NextIdle]_vars

\* Sync replies of any bounded content merged into the loaded replica.
NextMerge ==
    \/ LoadWithSplash
    \/ DismissError
    \/ SwitchPane
    \/ MoveTask
    \/ PushEvent
    \/ ServerSyncAny
    \/ SyncFails
    \/ RecvSyncDelta

SpecMerge == Init /\ [][NextMerge]_vars

\* The sync token in memory and on disk, in both storage modes.
InitToken ==
    /\ \E is_ephemeral \in BOOLEAN : Becomes0(NewApp("*", is_ephemeral, 0))
    /\ pc = "load"
    /\ server = ServerFixture(TRUE)
    /\ wsock = NoSocket
    /\ hist = NoHist

NextToken ==
    \/ LoadWithSplash
    \/ DismissError
    \/ StarProject
    \/ ServerFlush
    \/ FlushFails
    \/ ReplyLost
    \/ RecvCommandResults
    \/ PushEvent
    \/ ServerSyncToken
    \/ SyncFails
    \/ RecvSyncDelta

SpecToken == InitToken /\ [][NextToken]_vars

\* Overlapping incremental syncs while another client changes the account.
InitStale ==
    /\ Becomes0(NewApp("*", TRUE, 0))
    /\ pc = "load"
    /\ server = ServerFixture(TRUE)
    /\ wsock = NoSocket
    /\ hist = [NoHist EXCEPT !.max_syncs = StaleSyncs]

NextStale ==
    \/ LoadWithSplash
    \/ DismissError
    \/ PushEvent
    \/ ServerEdit
    \/ ServerSync
    \/ RecvSyncDelta

SpecStale == InitStale /\ [][NextStale]_vars

\* Commands on tasks that another client re-parents meanwhile.
NextReparent ==
    \/ LoadWithSplash
    \/ DismissError
    \/ SwitchPane
    \/ MoveTask
    \/ CompleteTask
    \/ ServerFlush
    \/ RecvCommandResults
    \/ ServerReparent
    \/ PushEvent
    \/ ServerSync
    \/ RecvSyncDelta

SpecReparent == Init /\ [][NextReparent]_vars

-----------------------------------------------------------------------------
(* Rollback of rejected commands *)

\* C1: when the reply to a command carries an error for its uuid and nothing
\* else was applied on the client between the submission and that reply, the
\* projects, tasks, labels, sections and comment collections are equal, list
\* order included, to what they were just before the submission.
C1_RollbackRestoresReplica ==
    hist.kind = "rollback" => Replica(Self) = hist.snap

\* The entity of the service's account with this id, or NONE.
ServerEntity(list, id) ==
    IF IdxOf(list, id) = 0 THEN NONE ELSE list[IdxOf(list, id)]

\* C2: once every submitted command has been rejected and every reply has
\* been applied, no value a rejected command wrote optimistically remains:
\* every task and project of the replica equals the service's record of it,
\* which no command has changed.
C2_RejectedLeaveNoTrace ==
    (/\ hist.ncmd = MaxCommands
     /\ Cardinality(hist.rejected) = MaxCommands
     /\ net = {}
     /\ server.ver = 0)
    => /\ \A i \in 1..Len(tasks) :
            tasks[i] = ServerEntity(server.items, tasks[i].id)
       /\ \A i \in 1..Len(projects) :
            projects[i] = ServerEntity(server.projects, projects[i].id)

-----------------------------------------------------------------------------
(* Temporary ids *)

\* The temporary ids whose mapping the client has reconciled: the service
\* has assigned the real id and the reply carrying the mapping has been
\* applied (replies are never lost under SpecTempId).
ReconciledTempIds ==
    {t \in DOMAIN server.tmap :
        \A m \in net : m.k = "CommandResults" =>
            \A i \in 1..Len(m.resp.temp_id_mapping) :
                m.resp.temp_id_mapping[i][1] # t}

\* C3: after the reply mapping temporary id t to a real id has been
\* reconciled, no task id, visible comment id, comment item_id or comment
\* task_id equals t.
C3_NoTempIdAfterMapping ==
    \A t \in ReconciledTempIds :
        /\ \A i \in 1..Len(tasks) : tasks[i].id # t
        /\ \A i \in 1..Len(comments) :
              /\ comments[i].id # t
              /\ comments[i].item_id # t
              /\ comments[i].task_id # t

-----------------------------------------------------------------------------
(* Creation racing with incremental syncs *)

\* C4: in every reachable state each task id occurs at most once in the
\* list visible_tasks returns, whatever the order in which background
\* results are applied.
C4_VisibleTasksUnique == NoDup(visible_tasks(Self))

\* The temporary task ids of the task additions whose flush call failed
\* before this many incremental syncs had been spawned.
LostTempIds(before) ==
    {temp_id_pending[l.uuid].temp_id :
        l \in {x \in hist.lost : /\ x.nsync < before
                                  /\ x.uuid \in DOMAIN temp_id_pending
                                  /\ temp_id_pending[x.uuid].kind = "TaskAdded"}}

\* C9: after the flush call of a task addition has failed, once the reply
\* of an incremental sync spawned later has been applied no task carrying
\* the temporary id of the lost command remains.
C9_LostCommandReconciled ==
    hist.kind = "delta" =>
        \A i \in 1..Len(tasks) : tasks[i].id \notin LostTempIds(hist.seq)

-----------------------------------------------------------------------------
(* Comment fetches *)

\* C10: a comments-fetch reply changes the visible comment list only if its
\* task is the selected task and its sequence number equals the
\* latest-requested counter; a reply with an older sequence number leaves
\* the list as it is, optimistic comments included.
C10_StaleFetchReplyDropped ==
    [][\A m \in net :
          (RecvCommentsMsg(m) /\ comments' # comments)
              => /\ m.fetch_seq = comments_fetch_seq
                 /\ selected_task_id(Self) = m.task_id]_vars

\* A successful reply with an older sequence number has just been applied
\* for the selected task: its list went to the task's bucket, and the
\* visible list, which differs from it, still shows a comment.
C10_StaleReplySeen ==
    /\ hist.kind = "comments"
    /\ hist.seq < comments_fetch_seq
    /\ comments # <<>>
    /\ selected_task_id(Self) \in DOMAIN comments_by_task
    /\ comments_by_task[selected_task_id(Self)] # comments

-----------------------------------------------------------------------------
(* Idle coalescing *)

SyncsIn(msgs) == {m \in msgs : m.k = "sync"}

\* A key press that carries no command.
KeyPress == DismissError \/ SwitchPane \/ MoveProject \/ MoveTask

\* C5: with an idle timeout set, a push event drained while the user is
\* idle spawns no incremental sync and sets the deferred flag, however many
\* came before it; a key press that finds the user idle with the flag set
\* spawns exactly one incremental sync and clears the flag, and any other
\* key press spawns none; a push event drained while the user is not idle
\* spawns exactly one incremental sync.
C5_IdleCoalescing ==
    [][idle_timeout_secs > 0 =>
        /\ (PushEvent /\ is_idle(Self)) =>
              /\ SyncsIn(net') = SyncsIn(net)
              /\ nsync' = nsync
              /\ pending_ws_sync'
        /\ (PushEvent /\ ~is_idle(Self)) =>
              /\ Cardinality(SyncsIn(net') \ SyncsIn(net)) = 1
              /\ nsync' = nsync + 1
        /\ (KeyPress /\ is_idle(Self) /\ pending_ws_sync) =>
              /\ Cardinality(SyncsIn(net') \ SyncsIn(net)) = 1
              /\ nsync' = nsync + 1
              /\ ~pending_ws_sync'
        /\ (KeyPress /\ ~(is_idle(Self) /\ pending_ws_sync)) =>
              SyncsIn(net') = SyncsIn(net)]_vars

\* Several push events were deferred in one idle period, a key has been
\* pressed since, and one incremental sync is under way.
C5_CoalescedSeen ==
    /\ idle_timeout_secs > 0
    /\ hist.kind = "key"
    /\ hist.npush = MaxPushes
    /\ ~pending_ws_sync
    /\ nsync = 1
    /\ Cardinality(SyncsIn(net)) = 1

-----------------------------------------------------------------------------
(* Merging sync replies *)

\* What delta idempotence compares.
SyncView(a) ==
    [projects |-> a.projects, tasks |-> a.tasks, labels |-> a.labels,
     sections |-> a.sections, comments_by_task |-> a.comments_by_task,
     comments |-> a.comments, sync_token |-> a.sync_token,
     selected_task |-> a.selected_task]

\* C7: applying an incremental reply a second time leaves the projects,
\* tasks, labels, sections, comment buckets, visible comments, sync token
\* and task cursor as the first application left them.
C7_DeltaIdempotent ==
    hist.kind = "delta" =>
        SyncView(apply_sync_delta(Self, hist.resp, TRUE)) = SyncView(Self)

Deleted(list) == {i \in 1..Len(list) : list[i].is_deleted}

\* C8: after a full-sync reply has been applied no project, task, label,
\* section, comment, workspace or folder of the replica has is_deleted set.
C8_FullSyncDropsTombstones ==
    hist.kind = "full" =>
        /\ Deleted(projects) = {} /\ Deleted(tasks) = {}
        /\ Deleted(labels) = {} /\ Deleted(sections) = {}
        /\ Deleted(workspaces) = {} /\ Deleted(folders) = {}
        /\ Deleted(comments) = {}
        /\ \A t \in DOMAIN comments_by_task : Deleted(comments_by_task[t]) = {}

\* A full-sync reply carrying a tombstone of every kind has been applied.
C8_TombstonesSeen ==
    /\ hist.kind = "full"
    /\ Deleted(hist.resp.projects) # {} /\ Deleted(hist.resp.items) # {}
    /\ Deleted(hist.resp.labels) # {} /\ Deleted(hist.resp.sections) # {}
    /\ Deleted(hist.resp.workspaces) # {} /\ Deleted(hist.resp.folders) # {}
    /\ Deleted(hist.resp.notes) # {}

-----------------------------------------------------------------------------
(* The sync token *)

\* C6: the in-memory sync token equals the token of the most recently
\* applied reply, and in non-ephemeral mode the persisted token equals the
\* in-memory token.
C6_TokenIsLastReplys ==
    /\ sync_token = hist.tok_any
    /\ ~ephemeral => persisted = sync_token

\* A call that fails: a flush or sync whose request or reply is lost, or
\* the initial sync.
FailedCall ==
    \/ FlushFails
    \/ SyncFails
    \/ ReplyLost
    \/ (LoadWithSplash /\ pc' = "offline")

\* C6 (amended): the in-memory sync token equals the token of the most
\* recently applied reply that carried a non-empty token (the start token
\* if none did); the persisted token equals the token of the most recent
\* such reply whose write succeeded in non-ephemeral mode (the token found
\* on disk if none did); and a failed call changes neither.
C6_TokenIntegrity ==
    /\ [](sync_token = hist.tok /\ persisted = hist.disk)
    /\ [][FailedCall => (sync_token' = sync_token /\ persisted' = persisted)]_vars

\* In non-ephemeral mode a reply without a token has been applied after one
\* with a token, and a write of the token has failed.
C6_EmptyTokenAndFailedWriteSeen ==
    /\ ~ephemeral
    /\ hist.tok_any = ""
    /\ sync_token \notin {"", "*"}
    /\ persisted # sync_token

-----------------------------------------------------------------------------
(* Parent chains *)

\* Whether the walk up the parent_id chain from id reaches target within
\* fuel steps.
RECURSIVE ReachesUp(_, _, _, _)
ReachesUp(list, id, target, fuel) ==
    LET i == IdxOf(list, id)
        parent == IF i = 0 THEN NONE ELSE list[i].parent_id
    IN  IF parent = NONE \/ fuel = 0 THEN FALSE
        ELSE IF parent = target THEN TRUE
        ELSE ReachesUp(list, parent, target, fuel - 1)

Acyclic(list) ==
    \A i \in 1..Len(list) : ~ReachesUp(list, list[i].id, list[i].id, Len(list))

\* C11: while every state of the service is acyclic, the parent_id chains
\* of the tasks and of the projects of the replica are acyclic after any
\* sequence of applied sync replies and command results.
C11_ParentChainsAcyclic ==
    Acyclic(Live(server.items)) /\ Acyclic(Live(server.projects))
        => Acyclic(tasks) /\ Acyclic(projects)

-----------------------------------------------------------------------------
(* The error surfaced for a rejected command *)

\* C15: when a reply rejects commands, the error shown afterwards is the one
\* of the last rejected command: its message is the service's error text, it
\* is recoverable, its hint is the one the error tag selects, and for a
\* rejected item_add its title is "Create task failed".
C15_RejectionErrorNamesAction ==
    [][RecvCommandResults =>
        \A m \in net \ net' :
            LET errs == SelectSeq(m.resp.sync_status, LAMBDA st : st.is_err)
                last == errs[Len(errs)]
            IN  (errs # <<>> /\ last.uuid \in DOMAIN temp_id_pending) =>
                    /\ error'.set
                    /\ error'.message = last.error
                    /\ error'.recoverable
                    /\ error'.suggestion = suggestion_for(last.error_tag)
                    /\ temp_id_pending[last.uuid].kind = "TaskAdded"
                         => error'.title = "Create task failed"]_vars

-----------------------------------------------------------------------------
(* Project order after a full sync *)

\* C18: once a full-sync reply has been applied, the project list is in the
\* order of the grouping by workspace and folder: personal projects, then
\* each workspace's ungrouped projects and folders, pinned first, by
\* child_order, children after their parent, dangling ones last; that is,
\* sorting it again with the workspaces and folders now known moves nothing.
C18_FullSyncOrdersProjects ==
    hist.kind = "full" => projects = sort_projects(Self).projects

-----------------------------------------------------------------------------
(* Order of the task view *)

SortTasks == 3      \* top-level tasks of the account whose view is sorted

\* The tasks differ in section, child_order, priority, due and added_at;
\* section s1 has an order, s2 has none and s9 does not exist.
SortProfiles ==
    {[section_id |-> NONE, child_order |-> 2, priority |-> 1,
      due |-> NoDue, added_at |-> 0],
     [section_id |-> "s1", child_order |-> 1, priority |-> 4,
      due |-> Due(TODAY + 1, FALSE), added_at |-> 1],
     [section_id |-> "s9", child_order |-> 1, priority |-> 1,
      due |-> Due(TODAY, FALSE), added_at |-> 1],
     [section_id |-> "s2", child_order |-> 2, priority |-> 4,
      due |-> NoDue, added_at |-> 0],
     [section_id |-> "s1", child_order |-> 2, priority |-> 4,
      due |-> Due(TODAY, FALSE), added_at |-> 0]}

SortItem(k, f) ==
    [MkTask(<<"i1", "i2", "i3", "i4", "i5">>[k], "A", "p1", NONE, f.child_order)
        EXCEPT !.section_id = f.section_id, !.priority = f.priority,
               !.due = f.due, !.added_at = f.added_at]

InitSort ==
    /\ Becomes0(NewApp("*", TRUE, 0))
    /\ pc = "load"
    /\ \E f \in [1..SortTasks -> SortProfiles] :
          server = [ServerFixture(TRUE) EXCEPT
              !.items = [k \in 1..SortTasks |-> SortItem(k, f[k])],
              !.sections = <<MkSection("s1", "p1", 1),
                             MkSection("s2", "p1", NoneI32)>>]
    /\ wsock = NoSocket
    /\ hist = NoHist

NextSort ==
    \/ LoadWithSplash
    \/ DismissError
    \/ SwitchPane
    \/ CycleSort

SpecSort == InitSort /\ [][NextSort]_vars

\* The key the sort mode orders the top-level rows by.
SortKeyOf(t) ==
    CASE sort_mode = "Default" ->
             <<SectionOrderOf(Self, t.section_id), t.child_order>>
      [] sort_mode = "Priority" -> <<0 - t.priority>>
      [] sort_mode = "DueDate" -> <<IF t.due.has THEN 0 ELSE 1,
                                    IF t.due.has THEN t.due.date ELSE 0>>
      [] OTHER -> <<0 - t.added_at>>

TopRows == SelectSeq(visible_tasks(Self), LAMBDA t : t.parent_id = NONE)

\* C19: in the view of a project the top-level rows are in the order of the
\* sort mode: by section order (no or unknown section first) and then
\* child_order; by priority, highest first; by due date with the tasks
\* without one last; by added_at, newest first; and rows equal under the key
\* are in the order they have in the replica.
C19_TopLevelOrder ==
    (dock_filter = "none" /\ task_filter = "Active") =>
        \A i, j \in 1..Len(TopRows) :
            i < j =>
                /\ ~KeyLess(SortKeyOf(TopRows[j]), SortKeyOf(TopRows[i]))
                /\ SortKeyOf(TopRows[i]) = SortKeyOf(TopRows[j]) =>
                      IdxOf(tasks, TopRows[i].id) < IdxOf(tasks, TopRows[j].id)

\* Sorted by due date: the first task of the replica has no due date and is
\* the last row, after two rows with the same date in replica order.
C19_NoDueLastSeen ==
    /\ sort_mode = "DueDate" /\ Len(TopRows) = 3
    /\ ~tasks[1].due.has /\ TopRows[3].id = tasks[1].id
    /\ TopRows[1].due = TopRows[2].due

-----------------------------------------------------------------------------
(* The dock filters *)

DockTasks == 2      \* parentless tasks of the account the dock filters select from

\* DOCK_ITEMS
DockItems == {"overdue", "today", "week", "p4", "p3", "p2", "p1"}

DockDues ==
    {NoDue, Due(TODAY - 1, FALSE), Due(TODAY, FALSE), Due(TODAY + 6, FALSE),
     Due(TODAY + 7, FALSE), Due(TODAY + 8, FALSE)}

DockItem(k, due, priority, checked) ==
    [MkTask(<<"i1", "i2", "i3", "i4", "i5">>[k], "A", "p1", NONE, k) EXCEPT
        !.due = due, !.priority = priority, !.checked = checked]

\* The task pane with one of the dock filters on.
InitDock ==
    /\ \E d \in DockItems :
          Becomes0([NewApp("*", TRUE, 0) EXCEPT
                       !.dock_filter = d, !.active_pane = "Tasks"])
    /\ pc = "load"
    /\ \E due \in [1..DockTasks -> DockDues],
          checked \in [1..DockTasks -> BOOLEAN],
          priority \in [1..DockTasks -> Priorities] :
          server = [ServerFixture(TRUE) EXCEPT
              !.items = [k \in 1..DockTasks |->
                            DockItem(k, due[k], priority[k], checked[k])]]
    /\ wsock = NoSocket
    /\ hist = NoHist

NextDock ==
    \/ LoadWithSplash
    \/ DismissError
    \/ SwitchPane
    \/ MoveTask

SpecDock == InitDock /\ [][NextDock]_vars

\* The dock predicates as stated: the week ends six days after today.
DockPredicate(t) ==
    CASE dock_filter = "overdue" ->
             t.due.has /\ t.due.date < TODAY /\ ~t.checked
      [] dock_filter = "today" -> t.due.has /\ t.due.date = TODAY
      [] dock_filter = "week" ->
             t.due.has /\ TODAY <= t.due.date /\ t.due.date <= TODAY + 6
      [] OTHER -> t.priority = DockPriority(dock_filter) /\ ~t.checked

\* C20: with a dock filter on, a parentless task that is not deleted is in
\* the view exactly when it satisfies the dock predicate; a task without a
\* due date satisfies none of the date predicates.
C20_DockPredicates ==
    dock_filter # "none" =>
        \A i \in 1..Len(tasks) :
            (~tasks[i].is_deleted /\ tasks[i].parent_id = NONE) =>
                ((\E r \in 1..Len(visible_tasks(Self)) :
                      visible_tasks(Self)[r].id = tasks[i].id)
                 <=> DockPredicate(tasks[i]))

-----------------------------------------------------------------------------
(* The overview counters *)

\* The tasks that are neither deleted nor checked and satisfy Keep.
OpenTasks(Keep(_)) ==
    {i \in 1..Len(tasks) :
        ~tasks[i].is_deleted /\ ~tasks[i].checked /\ Keep(tasks[i])}

\* C22: each overview counter is the number of tasks, neither deleted nor
\* checked, that are overdue, due today, due within the window of the Week
\* dock filter, or of the given priority.
C22_OverviewCounters ==
    LET stats == overview_stats(Self)
        IsOverdue(t) == t.due.has /\ t.due.date < TODAY
        IsToday(t) == t.due.has /\ t.due.date = TODAY
        IsWeek(t) == TopLevelKeep([Self EXCEPT !.dock_filter = "week"],
                                  [t EXCEPT !.parent_id = NONE])
    IN  /\ stats.overdue = Cardinality(OpenTasks(IsOverdue))
        /\ stats.due_today = Cardinality(OpenTasks(IsToday))
        /\ stats.due_week = Cardinality(OpenTasks(IsWeek))
        /\ \A p \in 0..4 :
              stats.by_priority[p] =
                  Cardinality({i \in 1..Len(tasks) :
                      /\ ~tasks[i].is_deleted /\ ~tasks[i].checked
                      /\ tasks[i].priority = p})

-----------------------------------------------------------------------------
(* Order of the dock view *)

DockRows == 3       \* parentless tasks, of two projects, shown by a dock filter

\* The task pane with a dock filter on that keeps every task of the account:
\* all are due today, unchecked and of priority 1.
InitDockOrder ==
    /\ \E d \in {"today", "p1"} :
          Becomes0([NewApp("*", TRUE, 0) EXCEPT
                       !.dock_filter = d, !.active_pane = "Tasks"])
    /\ pc = "load"
    /\ \E project \in [1..DockRows -> {"p1", "p2"}] :
          server = [ServerFixture(TRUE) EXCEPT
              !.items = [k \in 1..DockRows |->
                  [MkTask(<<"i1", "i2", "i3", "i4", "i5">>[k], "A", project[k],
                          NONE, k)
                      EXCEPT !.due = Due(TODAY, FALSE), !.added_at = k]]]
    /\ wsock = NoSocket
    /\ hist = NoHist

NextDockOrder ==
    \/ LoadWithSplash
    \/ DismissError
    \/ MoveTask
    \/ CycleSort

SpecDockOrder == InitDockOrder /\ [][NextDockOrder]_vars

\* C21: with a dock filter on, the view has no child rows and the rows of
\* one project are contiguous: between two rows of the same project there is
\* no row of another project.
C21_DockProjectsContiguous ==
    dock_filter # "none" =>
        LET view == visible_tasks(Self)
        IN  /\ \A i \in 1..Len(view) : view[i].parent_id = NONE
            /\ \A i, j, k \in 1..Len(view) :
                  (i < j /\ j < k /\ view[i].project_id = view[k].project_id)
                      => view[j].project_id = view[i].project_id

-----------------------------------------------------------------------------
(* Reversal records *)

NextReplay ==
    \/ LoadWithSplash
    \/ DismissError
    \/ SwitchPane
    \/ MoveTask
    \/ CompleteTask
    \/ SubmitTaskForm
    \/ ServerFlush
    \/ RecvCommandResults
    \/ ReplayResults

SpecReplay == Init /\ [][NextReplay]_vars

-----------------------------------------------------------------------------
(* The completion toggle *)

\* C16: toggling the selected row queues item_reopen for a checked task,
\* item_complete for an unchecked recurring one and item_close otherwise,
\* and changes nothing of the tasks but that row's checked flag; and once a
\* delta has been applied, every live task it carries is in the replica
\* exactly once, with the checked flag and the due of the service.
C16_CompletionToggle ==
    /\ [](hist.kind = "delta" =>
            \A i \in 1..Len(hist.resp.items) :
                LET item == hist.resp.items[i]
                    mine == SelectSeq(tasks, LAMBDA t : t.id = item.id)
                IN  ~item.is_deleted =>
                        /\ Len(mine) = 1
                        /\ mine[1].checked = item.checked
                        /\ mine[1].due = item.due)
    /\ [][CompleteTask =>
            LET row == visible_tasks(Self)[selected_task + 1]
            IN  /\ tasks' = Patch(tasks, row.id, "checked", ~row.checked)
                /\ \E m \in net' \ net :
                      /\ m.k = "flush"
                      /\ m.commands[Len(m.commands)].args.id = row.id
                      /\ m.commands[Len(m.commands)].type =
                            IF row.checked THEN "item_reopen"
                            ELSE IF row.due.has /\ row.due.is_recurring
                            THEN "item_complete"
                            ELSE "item_close"]_vars

\* The recurring task was completed, the service moved its due date on and
\* left it unchecked, and the delta that says so has been applied.
C16_RecurringAdvancedSeen ==
    /\ hist.kind = "delta"
    /\ \E i \in 1..Len(hist.resp.items), j \in 1..Len(tasks) :
          /\ hist.resp.items[i].id = "i1" /\ tasks[j].id = "i1"
          /\ hist.resp.items[i].due = Due(TODAY + 7, TRUE)
          /\ tasks[j].due = Due(TODAY + 7, TRUE) /\ ~tasks[j].checked

-----------------------------------------------------------------------------
(* The push channel's connection task *)

MaxFails == 6       \* consecutive failed connection attempts
MaxPosts == 6       \* messages the task posts in a run

\* backoff_secs = (backoff_secs * 2).min(60)
next_backoff_Uncapped(secs) == secs * 2
next_backoff(secs) == IF secs * 2 < 60 THEN secs * 2 ELSE 60

\* connect_async_tls_with_config succeeds: the backoff is reset and
\* WebSocketConnected is posted; the task then reads frames.
WsConnects ==
    /\ pc = "run" /\ wsock.spawned > 0
    /\ wsock.at = "connect" /\ Len(wsock.posted) < MaxPosts
    /\ wsock' = [wsock EXCEPT !.at = "open", !.backoff_secs = 5, !.fails = 0,
                        !.posted = Append(@, "WebSocketConnected")]
    /\ UNCHANGED <<net, server, hist>> /\ ClientUnchanged

\* The connection attempt fails: sleep for backoff_secs, double it up to the
\* cap, and try again.
WsConnectFails ==
    /\ pc = "run" /\ wsock.spawned > 0
    /\ wsock.at = "connect" /\ wsock.fails < MaxFails
    /\ wsock' = [wsock EXCEPT !.slept = wsock.backoff_secs,
                        !.backoff_secs = next_backoff(wsock.backoff_secs),
                        !.fails = @ + 1]
    /\ UNCHANGED <<net, server, hist>> /\ ClientUnchanged

\* read.next() yields a frame: WebSocketEvent is posted.
WsFrame ==
    /\ wsock.at = "open" /\ Len(wsock.posted) < MaxPosts
    /\ wsock' = [wsock EXCEPT !.posted = Append(@, "WebSocketEvent")]
    /\ UNCHANGED <<net, server, hist>> /\ ClientUnchanged

\* The stream ends: WebSocketDisconnected is posted, the task sleeps one
\* second and connects again.
WsCloses ==
    /\ wsock.at = "open" /\ Len(wsock.posted) < MaxPosts
    /\ wsock' = [wsock EXCEPT !.at = "connect", !.slept = 1,
                        !.posted = Append(@, "WebSocketDisconnected")]
    /\ UNCHANGED <<net, server, hist>> /\ ClientUnchanged

NextSocket ==
    \/ LoadWithSplash
    \/ DismissError
    \/ WsConnects
    \/ WsConnectFails
    \/ WsFrame
    \/ WsCloses

SpecSocket == Init /\ [][NextSocket]_vars

\* C13: the backoff stays within [5, 60]; the k-th consecutive failed attempt
\* is followed by a sleep of min(5 * 2^(k-1), 60) seconds; a successful
\* connection resets the backoff to 5 and posts WebSocketConnected; when the
\* stream ends WebSocketDisconnected is posted and the task sleeps 1 second
\* with the backoff unchanged.
C13_ReconnectBackoff ==
    /\ [](wsock.backoff_secs \in 5..60)
    /\ [][/\ WsConnectFails =>
               wsock'.slept = (IF 5 * 2^(wsock'.fails - 1) < 60
                            THEN 5 * 2^(wsock'.fails - 1) ELSE 60)
          /\ WsConnects =>
               /\ wsock'.backoff_secs = 5
               /\ wsock'.posted[Len(wsock'.posted)] = "WebSocketConnected"
          /\ WsCloses =>
               /\ wsock'.posted[Len(wsock'.posted)] = "WebSocketDisconnected"
               /\ wsock'.slept = 1
               /\ wsock'.backoff_secs = wsock.backoff_secs]_vars

\* The channel was connected and closed, and the attempts after that have
\* failed often enough for the delay to reach the cap.
C13_CapReachedAfterCloseSeen ==
    /\ wsock.posted = <<"WebSocketConnected", "WebSocketDisconnected">>
    /\ wsock.fails = 5 /\ wsock.slept = 60 /\ wsock.backoff_secs = 60

-----------------------------------------------------------------------------
(* The retry wrapper around sync *)

\* The cap on retries after a rate-limit failure.
MAX_RETRIES == 3

may_retry_Always(retries) == TRUE
may_retry(retries) == retries < MAX_RETRIES

Requests == {m \in net : m.k \in {"sync", "flush"}}

\* The service answers a sync call with a rate-limit failure: the wrapper
\* sleeps and calls again while retries remain, and otherwise returns the
\* terminal rate-limit error, which the caller logs (a flushed batch is
\* gone then).
RateLimited ==
    \E m \in Requests :
        /\ IF may_retry(m.retries)
           THEN /\ net' = (net \ {m}) \cup {[m EXCEPT !.retries = @ + 1]}
                /\ hist' = [Seen("retry") EXCEPT !.seq = m.retries + 1]
           ELSE /\ net' = net \ {m}
                /\ hist' = [Seen("RateLimitExceeded") EXCEPT
                       !.seq = m.retries,
                       !.lost = IF m.k = "sync" THEN @
                                ELSE @ \cup {[uuid |-> m.commands[i].uuid,
                                              nsync |-> nsync] :
                                                 i \in 1..Len(m.commands)}]
        /\ ClientUnchanged /\ UNCHANGED <<server, wsock>>

NextRetry ==
    \/ LoadWithSplash
    \/ DismissError
    \/ SwitchPane
    \/ CompleteTask
    \/ PushEvent
    \/ RateLimited
    \/ FlushFails
    \/ SyncFails
    \/ ServerFlush
    \/ ServerSync
    \/ RecvCommandResults
    \/ RecvSyncDelta

SpecRetry == Init /\ [][NextRetry]_vars

\* C14: a sync call is retried at most MAX_RETRIES times; a rate-limit
\* failure after the last retry ends the call with the rate-limit error and
\* an earlier one leads to exactly one more attempt; any other failure ends
\* the call at once and records no rate-limit error; a success on any
\* attempt ends the call with exactly one reply.
C14_RetryTerminates ==
    /\ [](\A m \in Requests : m.retries <= MAX_RETRIES)
    /\ [][/\ RateLimited =>
               \E m \in Requests :
                   \/ /\ m.retries < MAX_RETRIES
                      /\ net' = (net \ {m}) \cup {[m EXCEPT !.retries = @ + 1]}
                      /\ hist'.kind # "RateLimitExceeded"
                   \/ /\ m.retries = MAX_RETRIES
                      /\ net' = net \ {m}
                      /\ hist'.kind = "RateLimitExceeded"
          /\ (FlushFails \/ SyncFails) =>
               /\ \E m \in Requests : net' = net \ {m}
               /\ hist'.kind = hist.kind /\ hist'.seq = hist.seq
          /\ (ServerFlush \/ ServerSync) =>
               \E m \in Requests :
                   /\ Cardinality(net' \ net) = 1
                   /\ net \ net' = {m}
                   /\ \A r \in net' \ net :
                         r.k = IF m.k = "sync" THEN "SyncDelta"
                               ELSE "CommandResults"]_vars

\* A call has ended with the rate-limit error after its last retry.
C14_RetriesExhaustedSeen ==
    hist.kind = "RateLimitExceeded" /\ hist.seq = MAX_RETRIES

-----------------------------------------------------------------------------
(* Overlapping incremental syncs *)

\* C12: while never more than two incremental syncs have overlapped, however
\* their replies were ordered, once the reply of a sync that was issued while
\* no other was under way, and that read the service's present state, has
\* been applied, the tasks, projects, sections and labels of the replica are
\* those of the service.
C12_StaleRepliesHealed ==
    (/\ hist.kind = "delta"
     /\ hist.overlap <= 2
     /\ hist.seq \in hist.solo
     /\ hist.resp.sync_token = Tok(server.ver))
    => /\ Range(tasks) = Range(Live(server.items))
       /\ Range(projects) = Range(Live(server.projects))
       /\ Range(sections) = Range(Live(server.sections))
       /\ Range(labels) = Range(Live(server.labels))

\* A reply older than the token in memory had changed the tasks, and a
\* sync issued after that, on its own, has been applied.
C12_StaleReplyHealedSeen ==
    /\ hist.kind = "delta"
    /\ hist.seq \in hist.solo
    /\ hist.resp.sync_token = Tok(server.ver)
    /\ hist.stale > 0 /\ hist.seq > hist.stale

-----------------------------------------------------------------------------
(* The per-project view under folds and filters *)

FoldTasks == 3      \* open or checked tasks of the project whose view is folded

\* The inbox holds i1, i2 and i3; i2 may be a subtask of i1 and i3 a subtask
\* of either, and one of them may be checked.
FoldItem(k, parent, checked) ==
    [MkTask(<<"i1", "i2", "i3", "i4">>[k], "A", "p1", parent, k)
        EXCEPT !.checked = checked]

FoldParents(k) == {NONE} \cup {<<"i1", "i2", "i3", "i4">>[j] : j \in 1..(k - 1)}

InitFold ==
    /\ Becomes0(NewApp("*", TRUE, 0))
    /\ pc = "load"
    /\ \E checked \in {f \in [1..FoldTasks -> BOOLEAN] :
                          Cardinality({k \in 1..FoldTasks : f[k]}) <= 1} :
       \E parent \in {f \in [1..FoldTasks -> {NONE, "i1", "i2", "i3"}] :
                         \A k \in 1..FoldTasks : f[k] \in FoldParents(k)} :
          server = [ServerFixture(FALSE) EXCEPT
              !.items = [k \in 1..FoldTasks |->
                            FoldItem(k, parent[k], checked[k])]]
    /\ wsock = NoSocket
    /\ hist = NoHist

NextFold ==
    \/ LoadWithSplash
    \/ DismissError
    \/ SwitchPane
    \/ MoveTask
    \/ CycleFilter
    \/ ToggleCollapse
    \/ CloseAllFolds
    \/ OpenAllFolds
    \/ RecvCompletedTasks

SpecFold == InitFold /\ [][NextFold]_vars

\* The tasks a parent chain is followed through: the replica's tasks and
\* the completed cache of the project shown.
FoldPool(a) == a.tasks \o CachedOf(a, current_project_id(a))

RECURSIVE UnderCollapsed(_, _, _)
UnderCollapsed(a, parent_id, fuel) ==
    IF parent_id = NONE \/ fuel = 0 THEN FALSE
    ELSE IF parent_id \in a.collapsed THEN TRUE
    ELSE LET i == IdxOf(FoldPool(a), parent_id)
         IN  i # 0 /\ UnderCollapsed(a, FoldPool(a)[i].parent_id, fuel - 1)

\* C23: in the per-project view, under every filter, no row has an ancestor
\* in the collapsed set, the rows taken from the completed cache included.
C23_CollapsedAncestorsHidden ==
    dock_filter = "none" =>
        \A t \in Range(visible_tasks(Self)) :
            ~UnderCollapsed(Self, t.parent_id, Len(FoldPool(Self)) + 1)

\* C24: under Done or Both, an open task of the replica that is the parent
\* of a cached completed task, and is not itself cached, is in the view
\* exactly once and before that cached task, however many cached tasks share
\* it as parent.
C24_ContextParentOnce ==
    (dock_filter = "none" /\ task_filter \in {"Done", "Both"}) =>
        LET cached == CachedOf(Self, current_project_id(Self))
            view == visible_tasks(Self)
        IN  \A c \in Range(cached) :
                (/\ c.parent_id # NONE
                 /\ c.parent_id \notin {x.id : x \in Range(cached)}
                 /\ \E t \in Range(tasks) :
                        t.id = c.parent_id /\ ~t.is_deleted)
                => /\ Cardinality({i \in 1..Len(view) :
                                      view[i].id = c.parent_id}) = 1
                   /\ IdxOf(view, c.parent_id) < IdxOf(view, c.id)

-----------------------------------------------------------------------------
(* The task cursor after a sync *)

NextClamp ==
    \/ LoadWithSplash
    \/ DismissError
    \/ SwitchPane
    \/ MoveProject
    \/ MoveTask
    \/ ToggleCollapse
    \/ PushEvent
    \/ ServerEdit
    \/ ServerSync
    \/ RecvSyncDelta

SpecClamp == Init /\ [][NextClamp]_vars

\* C25: in the state a sync reply, full or delta, leaves when it has been
\* applied, the task cursor is 0 when the view is empty and below the length
\* of the view otherwise.
C25_CursorClampedAfterSync ==
    hist.kind \in {"full", "delta"} =>
        IF Len(visible_tasks(Self)) = 0
        THEN selected_task = 0
        ELSE selected_task < Len(visible_tasks(Self))

\* A delta has just been applied that shortened the view below the cursor.
C25_CursorPulledBackSeen ==
    hist.kind = "delta" /\ hist.cursor > selected_task

-----------------------------------------------------------------------------
(* Fold operations *)

\* What a fold operation leaves alone.
FoldRest ==
    <<projects, tasks, sections, labels, comments, comments_by_task,
      completed_cache, selected_project, active_pane, sort_mode, task_filter,
      dock_filter, sync_token, pending_commands, temp_id_pending, error, net>>

\* The effect of the three fold operations.  On a leaf with a parent the
\* cursor is on the parent's row afterwards; with parent_row_known FALSE
\* that is required only when the parent has a row in the new view, and the
\* cursor stays where it was when it has none.
FoldOperations(parent_row_known) ==
    /\ hist'.kind = "toggle_collapse" =>
         LET view == visible_tasks(Self)
             after == Self'
             OnParent(pid) ==
                 IF parent_row_known \/ IdxOf(visible_tasks(after), pid) # 0
                 THEN /\ selected_task' < Len(visible_tasks(after))
                      /\ visible_tasks(after)[selected_task' + 1].id = pid
                 ELSE UNCHANGED selected_task
             OnRow(t) ==
                 IF has_children(Self, t.id)
                 THEN /\ collapsed' = IF t.id \in collapsed
                                      THEN collapsed \ {t.id}
                                      ELSE collapsed \cup {t.id}
                      /\ UNCHANGED selected_task
                 ELSE IF t.parent_id # NONE
                 THEN /\ collapsed' = collapsed \cup {t.parent_id}
                      /\ OnParent(t.parent_id)
                 ELSE UNCHANGED <<collapsed, selected_task>>
         IN  /\ UNCHANGED FoldRest
             /\ IF selected_task < Len(view)
                THEN OnRow(view[selected_task + 1])
                ELSE UNCHANGED <<collapsed, selected_task>>
    /\ hist'.kind = "close_all_folds" =>
         /\ \A t \in Range(tasks) :
                has_children(Self, t.id) => t.id \in collapsed'
         /\ UNCHANGED FoldRest
    /\ hist'.kind = "open_all_folds" =>
         collapsed' = {} /\ UNCHANGED FoldRest

\* C26: toggle-fold on a row whose task has children flips that id in the
\* collapsed set and changes nothing else; on a leaf with a parent it adds
\* the parent id and puts the cursor on the parent's row; on a parentless
\* leaf it changes nothing; close-all-folds leaves every task that has a
\* child collapsed; open-all-folds leaves the set empty.
C26_FoldOperations == [][FoldOperations(TRUE)]_vars

\* C26, amended: as above, but on a leaf with a parent the cursor goes to
\* the parent's row only when the parent has a row in the view; when it has
\* none (the leaf is a context row whose own parent is not shown) the parent
\* id is still added and the cursor stays.
C26_FoldOperationsParentShown == [][FoldOperations(FALSE)]_vars

\* A second toggle-fold on the same row has just unfolded a task.
C26_UnfoldedByToggleSeen ==
    LET view == visible_tasks(Self)
    IN  /\ hist.kind = "toggle_collapse"
        /\ selected_task < Len(view)
        /\ has_children(Self, view[selected_task + 1].id)
        /\ view[selected_task + 1].id \notin collapsed

-----------------------------------------------------------------------------
(* The Done view *)

\* The ids above parent_id in the pool's parent chains, parent_id included.
RECURSIVE AncestorIds(_, _, _)
AncestorIds(pool, parent_id, fuel) ==
    IF parent_id = NONE \/ fuel = 0 THEN {}
    ELSE LET i == IdxOf(pool, parent_id)
         IN  {parent_id} \cup
             (IF i = 0 THEN {}
              ELSE AncestorIds(pool, pool[i].parent_id, fuel - 1))

\* C27: under the Done filter with the dock filter off, every row of the
\* view is a task of the replica or of the completed cache as stored there,
\* and it is checked, or cached, or an unchecked ancestor of a checked or
\* cached task.
C27_DoneViewRows ==
    (dock_filter = "none" /\ task_filter = "Done") =>
        LET cached == CachedOf(Self, current_project_id(Self))
            pool == FoldPool(Self)
            done == {c \in Range(pool) : c.checked \/ c \in Range(cached)}
        IN  \A r \in Range(visible_tasks(Self)) :
                /\ r \in Range(tasks) \cup Range(cached)
                /\ \/ r.checked
                   \/ r \in Range(cached)
                   \/ \E c \in done :
                          r.id \in AncestorIds(pool, c.parent_id, Len(pool) + 1)

\* The Done view shows an unchecked task of the replica above a completed one.
C27_ContextRowSeen ==
    /\ dock_filter = "none" /\ task_filter = "Done"
    /\ \E r \in Range(visible_tasks(Self)) : ~r.checked /\ r \in Range(tasks)
    /\ \E r \in Range(visible_tasks(Self)) : r.checked /\ r \in Range(tasks)

-----------------------------------------------------------------------------
(* Ephemeral mode *)

\* Tokens sync_state.json may hold at start: none, or one of an earlier run.
DiskTokens == {"*", "T12"}

\* ui_settings.json at start: absent, or written by an earlier run.
DiskSettings ==
    {NoFile,
     [exists |-> TRUE, theme |-> 1, idle_timeout_secs |-> 600,
      written |-> FALSE]}

InitEphemeral ==
    /\ \E token \in DiskTokens, f \in DiskSettings :
          Becomes0([NewApp(token, TRUE,
                           IF f.exists THEN f.idle_timeout_secs ELSE 300)
                       EXCEPT !.theme_idx = f.theme, !.ui_settings = f])
    /\ pc = "load"
    /\ server = ServerFixture(FALSE)
    /\ wsock = NoSocket
    /\ hist = NoHist

NextEphemeral ==
    \/ LoadWithSplash
    \/ DismissError
    \/ StarProject
    \/ ServerFlush
    \/ RecvCommandResults
    \/ PushEvent
    \/ ServerSync
    \/ RecvSyncDelta
    \/ CycleIdleTimeout
    \/ SelectTheme

SpecEphemeral == InitEphemeral /\ [][NextEphemeral]_vars

\* C28: in ephemeral mode no step changes or rewrites sync_state.json or
\* ui_settings.json, whatever replies are applied and settings are changed,
\* and before the first reply the token in memory is "*" whatever token
\* the file holds.
C28_EphemeralWritesNothing ==
    /\ [](ephemeral => (~ui_settings.written /\ (pc = "load" => sync_token = "*")))
    /\ [][ephemeral => UNCHANGED <<persisted, ui_settings>>]_vars

\* An ephemeral run that found a token on disk has applied a command reply
\* and changed theme and timeout.
C28_EphemeralRunSeen ==
    /\ ephemeral /\ persisted = "T12" /\ sync_token \notin {"*", "T12"}
    /\ hist.ncmd > 0 /\ TokVer(sync_token) > 0
    /\ theme_idx # ui_settings.theme
    /\ idle_timeout_secs # ui_settings.idle_timeout_secs

-----------------------------------------------------------------------------
(* Startup *)

\* Runs of either mode, with and without a token of an earlier run on disk,
\* against an account whose user record has a push URL or has none.
InitStartup ==
    /\ \E is_ephemeral \in BOOLEAN, token \in DiskTokens :
          Becomes0(NewApp(token, is_ephemeral, 0))
    /\ pc = "load"
    /\ \E url \in {NONE, "wss"} :
          server = [ServerFixture(FALSE) EXCEPT !.websocket_url = url]
    /\ wsock = NoSocket
    /\ hist = NoHist

NextStartup ==
    \/ LoadWithSplash
    \/ DismissError
    \/ SwitchPane
    \/ PushEvent
    \/ ServerSync
    \/ RecvSyncDelta
    \/ WsConnects
    \/ WsConnectFails
    \/ WsFrame
    \/ WsCloses

SpecStartup == InitStartup /\ [][NextStartup]_vars

-----------------------------------------------------------------------------
(* Comment buckets *)

\* C30: a successful comments reply for task T, whatever its sequence number
\* and whatever row the cursor is on, leaves the reply's list in
\* comments_by_task[T] and its length in T's note_count; a failed reply
\* changes neither the buckets nor the tasks.
C30_CommentsReplyFillsBucket ==
    [][\A m \in net \ net' :
          m.k = "Comments" =>
              IF m.result.ok
              THEN /\ m.task_id \in DOMAIN comments_by_task'
                   /\ comments_by_task'[m.task_id] = m.result.list
                   /\ \A t \in Range(tasks') :
                          t.id = m.task_id =>
                              t.note_count = Len(m.result.list)
                   /\ \A t \in Range(tasks') :
                          t.id # m.task_id => t \in Range(tasks)
              ELSE UNCHANGED <<comments_by_task, tasks>>]_vars

\* A reply with an old sequence number has been applied while the cursor was
\* on another task, and that task's bucket and counter hold its comments.
C30_OldReplyFilledBucketSeen ==
    /\ hist.kind = "comments" /\ hist.seq < comments_fetch_seq
    /\ \E t \in Range(tasks) :
          /\ t.id # selected_task_id(Self)
          /\ t.id \in DOMAIN comments_by_task
          /\ comments_by_task[t.id] # <<>>
          /\ t.note_count = Len(comments_by_task[t.id])
          /\ comments # comments_by_task[t.id]

-----------------------------------------------------------------------------
(* Command batches *)

\* Commands on tasks and projects, submitted while incremental syncs move
\* the sync token and while flushes are lost in transport.
NextFlush ==
    \/ LoadWithSplash
    \/ DismissError
    \/ SwitchPane
    \/ CompleteTask
    \/ SubmitTaskForm
    \/ StarProject
    \/ ServerFlush
    \/ FlushFails
    \/ RecvCommandResults
    \/ PushEvent
    \/ ServerSync
    \/ RecvSyncDelta

SpecFlush == Init /\ [][NextFlush]_vars

\* The uuids of a batch, in order.
BatchUuids(commands) == [i \in 1..Len(commands) |-> commands[i].uuid]

\* C31: between steps the pending batch is empty; a flush request appears
\* only in a submitting step, carries exactly the command of that step, no
\* resource types and the sync token held at that moment; its uuids were
\* never drawn before, every uuid in flight was drawn earlier, no two
\* requests share a uuid, and the uuids of a batch lost in transport are in
\* no request afterwards.
C31_FlushCarriesBatch ==
    /\ [](/\ pending_commands = <<>>
          /\ \A m \in net :
                m.k = "flush" =>
                    /\ \A i \in 1..Len(m.commands) :
                          /\ m.commands[i].uuid < CMD_COUNTER
                          /\ \A l \in hist.lost : l.uuid # m.commands[i].uuid
                    /\ \A o \in net \ {m} :
                          o.k = "flush" =>
                              Range(BatchUuids(o.commands))
                                  \cap Range(BatchUuids(m.commands)) = {})
    /\ [][\A m \in net' \ net :
              m.k = "flush" =>
                  /\ hist'.kind = "submit"
                  /\ BatchUuids(m.commands) = <<hist'.uuid>>
                  /\ m.resource_types = {}
                  /\ m.sync_token = sync_token /\ sync_token' = sync_token
                  /\ hist'.uuid >= CMD_COUNTER
                  /\ hist'.uuid < CMD_COUNTER']_vars

\* A batch was lost in transport, an incremental sync has run since, and a
\* later command is in flight with the token the client holds now.
C31_FlushAfterLostBatchSeen ==
    /\ hist.kind = "submit" /\ sync_token # "*"
    /\ \E l \in hist.lost : l.nsync < nsync /\ l.uuid < hist.uuid
    /\ \E m \in net :
          /\ m.k = "flush" /\ m.sync_token = sync_token
          /\ BatchUuids(m.commands) = <<hist.uuid>>

-----------------------------------------------------------------------------
(* Task updates *)

\* The fields of a task that an item_update with these arguments names.
NamedFields(args) == DOMAIN args \ {"id"}

\* C32: a step that sends item_update names the selected task and one of
\* content, description, priority or due_string; it records a reversal
\* record holding the task as it was, and leaves every collection of the
\* replica alone except for the named field of that task, which takes the
\* sent value; for due_string no field of the task changes.  Picking the
\* priority the task already has sends nothing, draws no uuid and records
\* nothing, and picking another one sends item_update.
C32_UpdateChangesNamedField ==
    [][/\ \A m \in net' \ net :
              (m.k = "flush" /\ m.commands[1].type = "item_update") =>
                  LET c == m.commands[1]
                      i == IdxOf(tasks, c.args.id)
                  IN  /\ Len(m.commands) = 1
                      /\ c.args.id = selected_task_id(Self) /\ i # 0
                      /\ Cardinality(NamedFields(c.args)) = 1
                      /\ NamedFields(c.args) \subseteq
                             {"content", "description", "priority", "due_string"}
                      /\ Len(tasks') = Len(tasks)
                      /\ \A j \in 1..Len(tasks) : j # i => tasks'[j] = tasks[j]
                      /\ \A f \in DOMAIN tasks[i] :
                             tasks'[i][f] = IF f \in NamedFields(c.args)
                                            THEN c.args[f] ELSE tasks[i][f]
                      /\ "due_string" \in NamedFields(c.args) => tasks' = tasks
                      /\ UNCHANGED <<projects, workspaces, folders, labels,
                                     sections, comments, comments_by_task,
                                     completed_cache>>
                      /\ c.uuid \notin DOMAIN temp_id_pending
                      /\ c.uuid \in DOMAIN temp_id_pending'
                      /\ temp_id_pending'[c.uuid] =
                             [kind |-> "TaskUpdated", task_id |-> c.args.id,
                              before |-> tasks[i]]
       /\ (hist' # hist /\ hist'.kind \in {"key", "submit"}
                        /\ hist'.seq \in Priorities) =>
              LET i == IdxOf(tasks, selected_task_id(Self))
              IN  IF tasks[i].priority = hist'.seq
                  THEN /\ hist'.kind = "key" /\ net' = net
                       /\ UNCHANGED <<tasks, temp_id_pending, pending_commands,
                                      CMD_COUNTER>>
                  ELSE /\ hist'.kind = "submit"
                       /\ \E m \in net' \ net :
                             /\ m.k = "flush"
                             /\ m.commands[1].type = "item_update"
                             /\ m.commands[1].args =
                                    [id |-> tasks[i].id, priority |-> hist'.seq]]_vars

\* A priority update is in flight and the new priority of the selected task
\* was picked once more.
C32_SamePriorityPickedSeen ==
    /\ hist.kind = "key" /\ hist.seq \in Priorities /\ hist.ncmd > 0
    /\ \E t \in Range(tasks) : t.id = selected_task_id(Self) /\ t.priority = hist.seq
    /\ \E u \in DOMAIN temp_id_pending :
          /\ temp_id_pending[u].kind = "TaskUpdated"
          /\ temp_id_pending[u].task_id = selected_task_id(Self)
          /\ temp_id_pending[u].before.priority # hist.seq

-----------------------------------------------------------------------------
(* The task cursor *)

\* C33: once the client is running, the task cursor is within the derived
\* view after every step: 0 when visible_tasks is empty and below its length
\* otherwise.
C33_CursorWithinView ==
    pc = "run" =>
        IF visible_tasks(Self) = <<>> THEN selected_task = 0
        ELSE selected_task < Len(visible_tasks(Self))

-----------------------------------------------------------------------------
(* The deferred push sync *)

\* Runs with and without an idle timeout.
InitIdleFlag ==
    /\ \E secs \in {0, IdleSecs} : Becomes0(NewApp("*", TRUE, secs))
    /\ pc = "load"
    /\ server = ServerFixture(TRUE)
    /\ wsock = NoSocket
    /\ hist = NoHist

SpecIdleFlag == InitIdleFlag /\ [][NextIdle]_vars

\* C34: pending_ws_sync is true only while is_idle holds; only a drained
\* push event sets it, and only when the user was idle then; a key press
\* (which restarts the activity clock) while it is set clears it and spawns
\* the incremental sync; with idle_timeout_secs = 0 the user is never idle
\* and the flag is never set.
C34_DeferredOnlyWhileIdle ==
    /\ [](/\ pending_ws_sync => is_idle(Self)
          /\ idle_timeout_secs = 0 => (~is_idle(Self) /\ ~pending_ws_sync))
    /\ [][/\ (~pending_ws_sync /\ pending_ws_sync') =>
                 (hist'.kind = "ws_event" /\ is_idle(Self) /\ net' = net)
          /\ (pending_ws_sync /\ elapsed' = 0) =>
                 /\ ~pending_ws_sync' /\ hist'.kind = "key"
                 /\ nsync' = nsync + 1
                 /\ \E m \in net' \ net : m.k = "sync"]_vars

\* A push event was deferred during an idle period, and the key press that
\* ended the period has cleared the flag and spawned the sync.
C34_DeferredClearedByKeySeen ==
    /\ hist.kind = "key" /\ ~pending_ws_sync /\ elapsed = 0
    /\ idle_timeout_secs > 0 /\ hist.npush > 0
    /\ \E m \in net : m.k = "sync" /\ m.rid = nsync

-----------------------------------------------------------------------------
(* sort_projects over arbitrary references *)

SortProjectsN == 3    \* projects in the lists handed to sort_projects
SortProjectIds == <<"p1", "p2", "p3", "p4", "p5">>

\* Where a project can point: a parent that is absent, itself, another
\* project or unknown ("p9"), and no workspace, workspace w1 without a folder,
\* with folder f1, with the unknown folder f9, or the unknown workspace w9.
ProjectRefs ==
    {[parent_id |-> par, workspace_id |-> g[1], folder_id |-> g[2]] :
        par \in {NONE, "p9"} \cup {SortProjectIds[k] : k \in 1..SortProjectsN},
        g \in {<<NONE, NONE>>, <<"w1", NONE>>, <<"w1", "f1">>,
               <<"w1", "f9">>, <<"w9", NONE>>}}

InitSortProjects ==
    /\ \E refs \in [1..SortProjectsN -> ProjectRefs],
          cursor \in 0..(SortProjectsN - 1) :
          Becomes0([NewApp("T0", TRUE, 0) EXCEPT
              !.projects = [k \in 1..SortProjectsN |->
                  [MkProject(SortProjectIds[k], SortProjectsN - k, FALSE, FALSE,
                             refs[k].workspace_id, refs[k].folder_id)
                      EXCEPT !.parent_id = refs[k].parent_id]],
              !.workspaces = <<[id |-> "w1", is_deleted |-> FALSE]>>,
              !.folders = <<MkFolder("f1", "w1", 1)>>,
              !.selected_project = cursor])
    /\ pc = "run"
    /\ server = ServerFixture(TRUE)
    /\ wsock = NoSocket
    /\ hist = NoHist

\* sort_projects is applied to the list.
SortProjects ==
    /\ pc = "run" /\ hist.kind = "init"
    /\ Becomes(sort_projects(Self))
    /\ hist' = [Seen("sort_projects") EXCEPT !.snap = Replica(Self),
                                             !.cursor = selected_project]
    /\ UNCHANGED <<pc, server, wsock>>

SpecSortProjects == InitSortProjects /\ [][SortProjects]_vars

\* How often p occurs in the list s.
Occurrences(s, p) == Cardinality({i \in 1..Len(s) : s[i] = p})

\* C35: the list after sort_projects has every project of the list before
\* exactly as often as before and nothing else, whatever the parent,
\* workspace and folder references are, and the project cursor is on the
\* project it was on before.
C35_SortProjectsPermutes ==
    hist.kind = "sort_projects" =>
        /\ Len(projects) = Len(hist.snap.projects)
        /\ \A p \in Range(projects) \cup Range(hist.snap.projects) :
              Occurrences(projects, p) = Occurrences(hist.snap.projects, p)
        /\ selected_project < Len(projects)
        /\ projects[selected_project + 1].id =
              hist.snap.projects[hist.cursor + 1].id

\* A list with a parent cycle, a dangling folder and a project of the
\* workspace has been reordered, and the cursor has moved with its project.
C35_CycleAppendedSeen ==
    /\ hist.kind = "sort_projects" /\ projects # hist.snap.projects
    /\ selected_project # hist.cursor
    /\ \E p, q \in Range(projects) :
          p.id # q.id /\ p.parent_id = q.id /\ q.parent_id = p.id
    /\ \E p \in Range(projects) : p.folder_id = "f9" \/ p.workspace_id = "w9"

-----------------------------------------------------------------------------
(* The detail view opened from a dock-filtered list *)

NextDockDetail ==
    \/ LoadWithSplash
    \/ DismissError
    \/ MoveTask
    \/ OpenDetail
    \/ CloseDetail

SpecDockDetail == InitDock /\ [][NextDockDetail]_vars

\* C36: when a key opens the detail view from a dock-filtered list, the
\* task selected_task() yields once the key has been handled is the task
\* that was on the cursor's row when the key was pressed.
C36_DetailShowsOpenedRow ==
    [][(active_pane = "Tasks" /\ active_pane' = "Detail" /\ dock_filter # "none") =>
           LET after == Self'
           IN  selected_task_id(after) = selected_task_id(Self)]_vars

-----------------------------------------------------------------------------
(* Tombstones *)

\* Full replies that lack some of the kinds asked for.
PartialFullReplies ==
    {[AnyReply(TRUE, "T9", items, notes, SomeOthers) EXCEPT !.has = kinds] :
        items \in ItemLists, notes \in NoteLists,
        kinds \in {{"items", "notes"}, {"projects", "workspaces"},
                   AllKinds \ {"items", "folders"}}}

ServerSyncPartial == AnswerSync(AnyReplies \cup PartialFullReplies)

\* Replies of any bounded content, full ones with kinds missing among them,
\* merged while commands are submitted and some of them rejected.
NextLive ==
    \/ LoadWithSplash
    \/ DismissError
    \/ StarProject
    \/ ServerFlush
    \/ RecvCommandResults
    \/ PushEvent
    \/ ServerSyncPartial
    \/ RecvSyncDelta

SpecLive == Init /\ [][NextLive]_vars

-----------------------------------------------------------------------------
(* Date helpers *)

\* i64 `/`: the quotient rounded toward zero.
TruncDiv(a, b) == IF a >= 0 THEN a \div b ELSE 0 - ((0 - a) \div b)

\* days_from_civil: div_euclid and rem_euclid by a positive divisor are
\* \div and %.
days_from_civil(y0, m, d) ==
    LET y == IF m <= 2 THEN y0 - 1 ELSE y0
        era == y \div 400
        yoe == y % 400
        doy == (153 * (IF m > 2 THEN m - 3 ELSE m + 9) + 2) \div 5 + d - 1
        doe == yoe * 365 + yoe \div 4 - yoe \div 100 + doy
    IN  era * 146097 + doe - 719468

\* civil_from_days without the step from March-based to January-based years.
civil_from_days_MarchYear(z0) ==
    LET z == z0 + 719468
        era == z \div 146097
        doe == z % 146097
        yoe == (doe - doe \div 1460 + doe \div 36524 - doe \div 146096) \div 365
        y == yoe + era * 400
        doy == doe - (365 * yoe + yoe \div 4 - yoe \div 100)
        mp == (5 * doy + 2) \div 153
        d == doy - (153 * mp + 2) \div 5 + 1
        m == IF mp < 10 THEN mp + 3 ELSE mp - 9
    IN  <<y, m, d>>

\* civil_from_days: the date <<y, m, d>> of day number z0.
civil_from_days(z0) ==
    LET z == z0 + 719468
        era == z \div 146097
        doe == z % 146097
        yoe == (doe - doe \div 1460 + doe \div 36524 - doe \div 146096) \div 365
        y == yoe + era * 400
        doy == doe - (365 * yoe + yoe \div 4 - yoe \div 100)
        mp == (5 * doy + 2) \div 153
        d == doy - (153 * mp + 2) \div 5 + 1
        m == IF mp < 10 THEN mp + 3 ELSE mp - 9
    IN  <<IF m <= 2 THEN y + 1 ELSE y, m, d>>

\* epoch_to_date; the formatted string "{y:04}-{m:02}-{d:02}" is carried as
\* the triple it prints.
epoch_to_date(epoch) == civil_from_days(TruncDiv(epoch, 86400))

DaysBefore == 800     \* day numbers before 1970-01-01 that are drawn
DaysAfter == 48000    \* day numbers after 1970-01-01 that are drawn
FirstClockDay == 7    \* the clock reads 1970-01-08 or later
LastClockDay == 24800 \* and 2037-11-25 or earlier (seconds stay below 2^31)

\* A day number is drawn; the rest of the program is as constructed.
InitDates ==
    /\ Becomes0(NewApp("*", TRUE, 0))
    /\ pc = "load"
    /\ server = ServerFixture(TRUE)
    /\ wsock = NoSocket
    /\ \E z \in (0 - DaysBefore)..DaysAfter : hist = [NoHist EXCEPT !.days = z]

DatesUnchanged == ClientUnchanged /\ UNCHANGED <<net, server, wsock>>

\* civil_from_days on the day number and on the one after it.
CivilFromDays ==
    /\ hist.kind = "init"
    /\ hist' = [hist EXCEPT !.kind = "civil_from_days",
                            !.date = civil_from_days(hist.days),
                            !.other = civil_from_days(hist.days + 1)]
    /\ DatesUnchanged

\* days_from_civil on the date just computed.
DaysFromCivil ==
    /\ hist.kind = "civil_from_days"
    /\ hist' = [hist EXCEPT !.kind = "days_from_civil",
                            !.back = days_from_civil(hist.date[1], hist.date[2],
                                                     hist.date[3])]
    /\ DatesUnchanged

\* today_str and offset_days_str(n) at one reading of the clock, at the first
\* and the last second of the day, for the offsets the program uses.
OffsetDaysStr ==
    /\ hist.kind = "init" /\ hist.days \in FirstClockDay..LastClockDay
    /\ \E secs \in {0, 86399}, n \in {-1, 1, 7} :
          LET now == hist.days * 86400 + secs
          IN  hist' = [hist EXCEPT !.kind = "offset_days_str", !.seq = n,
                                   !.date = epoch_to_date(now),
                                   !.other = epoch_to_date(now + n * 86400)]
    /\ DatesUnchanged

NextDates ==
    \/ CivilFromDays
    \/ DaysFromCivil
    \/ OffsetDaysStr

SpecDates == InitDates /\ [][NextDates]_vars

\* The Gregorian calendar: leap years, month lengths and the day after a
\* date.
IsLeap(y) == y % 4 = 0 /\ (y % 100 # 0 \/ y % 400 = 0)
DaysInMonth(y, m) ==
    IF m = 2 THEN (IF IsLeap(y) THEN 29 ELSE 28)
    ELSE IF m \in {4, 6, 9, 11} THEN 30 ELSE 31
NextDate(t) ==
    IF t[3] < DaysInMonth(t[1], t[2]) THEN <<t[1], t[2], t[3] + 1>>
    ELSE IF t[2] < 12 THEN <<t[1], t[2] + 1, 1>>
    ELSE <<t[1] + 1, 1, 1>>
RECURSIVE AddDays(_, _)
AddDays(t, n) == IF n = 0 THEN t ELSE AddDays(NextDate(t), n - 1)

====
